---------------------------- MODULE Spec2Model ----------------------------
(***************************************************************************)
(* A model of the Glossar application (src/src/App.tsx and the earlier     *)
(* revision kept in src/unnamed/part_000): the string utilities            *)
(* (normalize, levenshtein), the derived values of a render (sorted,       *)
(* results, suggestions) and the handlers that change the term collection. *)
(*                                                                         *)
(* A JavaScript string is modelled as a sequence of Unicode code points.   *)
(* The character tables below cover the code points the model draws its    *)
(* strings from; every other code point is left unchanged by them.         *)
(***************************************************************************)
EXTENDS Integers, Sequences, FiniteSets, TLC

VARIABLES
    \* ---- state of the App component (useState hooks)
    entries,       \* Entry[]: sequence of [begriff, definition, beispiel, quellen]
    query,         \* the search box
    fuzzy,         \* "Unscharf" select
    fuzzyTol,      \* "Toleranz" select
    sortAsc,       \* sort direction
    detailOpen,    \* detail modal shown
    selected,      \* Entry | null: <<e>> or <<>>
    editorOpen,    \* editor modal shown
    editorMode,    \* "create" | "edit"
    editorIndex,   \* number | null: <<i>> (an index from 0, or -1) or <<>>
    formBegriff, formDef, formBsp, formQ,   \* editor form fields
    modalOpen,     \* first revision: the detail modal shown
    importFile,    \* the text of a CSV file being read (await file.text()): <<text>> or <<>>
    steps,         \* how many user actions and completions Spec has taken
    view,          \* the derived values of the last render: <<>> or <<[sorted, results, suggestions]>>
    sources,       \* Source[]: sequence of [quelle, beschreibung]
    newQuelle, newBeschr,   \* the editor's inputs for a new source
    sourceQ, sourceB,       \* earlier revision: the inputs q and b of the Sources form
    bootDone,      \* boot/migration has run
    lsEntries,     \* localStorage item "glossar_entries_v3": <<>> (absent) or <<text>>
    lsSources,     \* localStorage item "glossar_sources_v1": <<>> (absent) or <<text>>
    lsEntriesV2,   \* localStorage item "glossar_entries_v2": <<>> (absent) or <<text>>
    cloudFile,     \* the glossary file in OneDrive: <<>> (none) or <<content>>
    cloudLoad,     \* where a pending "Cloud laden" is: <<>> (none pending) or <<stage>>
    cloudAlert,    \* what the last "Cloud laden" reported: <<>>, <<"loaded">> or <<"failed">>
    effects,       \* the effects of the last commit still to run, in order
    committed,     \* the dependencies of the saving effects at the last commit
    \* ---- a call of a pure utility under test: its argument and what it returned
    str,           \* the argument of normalize
    stage,         \* which calls have been made
    once,          \* normalize(str)
    twice,         \* normalize(normalize(str))
    upper,         \* normalize(str.toUpperCase())
    other,         \* a second string: the second argument of levenshtein
    otherNorm,     \* normalize(other)
    lev,           \* levenshtein(str, other)
    levRev         \* levenshtein(other, str)

sourceVars == <<sources, newQuelle, newBeschr, sourceQ, sourceB>>
bootVars == <<bootDone, lsEntries, lsEntriesV2, lsSources, effects, committed>>
cloudVars == <<cloudFile, cloudLoad, cloudAlert>>
extraVars == <<view, sourceVars, bootVars, cloudVars>>
appVars == <<entries, query, fuzzy, fuzzyTol, sortAsc, detailOpen, selected,
             editorOpen, editorMode, editorIndex,
             formBegriff, formDef, formBsp, formQ, modalOpen, importFile, steps, extraVars>>
pairVars == <<other, otherNorm, lev, levRev>>
utilVars == <<str, stage, once, twice, upper, pairVars>>
vars == <<appVars, extraVars, utilVars>>

-----------------------------------------------------------------------------
(* Bounds of the model *)

\* longest argument handed to normalize in SpecNorm
MaxStrLen == 3

\* longest first string of a pair in SpecPair
MaxPairLen == 3

\* most entries of the term collection in SpecRender
MaxRenderEntries == 2

\* most sources of the source collection in SpecSources
MaxSources == 3

\* most user actions and completions in a behaviour of Spec
MaxSteps == 7

\* most entries of the term collection in SpecSearch
MaxSearchEntries == 3

\* most entries of the term collection in SpecSuggest: more than the 8
\* suggestions shown
MaxSuggestEntries == 9

\* most entries of a term collection of SpecSuggest that holds non-matching terms
MaxMixedEntries == 3

\* most entries of a collection of SpecCsv
MaxCsvEntries == 2

-----------------------------------------------------------------------------
(* Sequences *)

Max(a, b) == IF a >= b THEN a ELSE b
Min(a, b) == IF a <= b THEN a ELSE b

\* all sequences over S of length at most n
SeqsUpTo(S, n) == UNION { [1..k -> S] : k \in 0..n }

RECURSIVE Concat(_)
\* the concatenation of a sequence of sequences
Concat(ss) == IF ss = <<>> THEN <<>> ELSE Head(ss) \o Concat(Tail(ss))

\* Array.prototype.slice(0, n)
Slice0(s, n) == SubSeq(s, 1, Min(n, Len(s)))

\* Array.prototype.reverse
Reverse(s) == [i \in 1..Len(s) |-> s[Len(s) + 1 - i]]

-----------------------------------------------------------------------------
(* Characters: code points and the Unicode tables the utilities rely on.   *)
(*   32 SPACE   34 "   44 ,   59 ;   10 LF   94 ^   168 DIAERESIS          *)
(*   65..90 A..Z   97..122 a..z   201 E-acute   233 e-acute                *)
(*   223 sharp s   7838 capital sharp s   304 I with dot above             *)
(*   769 COMBINING ACUTE   775 COMBINING DOT ABOVE   776 COMBINING DIAERESIS *)
(*   64257 LATIN SMALL LIGATURE FI                                         *)

\* String.prototype.normalize("NFKD") of one code point: its compatibility
\* decomposition (UnicodeData.txt, field 5, applied recursively)
NFKDChar(c) ==
    CASE c = 201   -> <<69, 769>>
      [] c = 233   -> <<101, 769>>
      [] c = 304   -> <<73, 775>>
      [] c = 168   -> <<32, 776>>
      [] c = 64257 -> <<102, 105>>
      [] OTHER     -> <<c>>

\* the code points with the Unicode property Diacritic (PropList.txt), among
\* Basic Latin, Latin-1 and the block Combining Diacritical Marks
IsDiacritic(c) ==
    c \in {94, 96, 168, 175, 180, 183, 184} \cup (768..846) \cup (848..855) \cup (861..866)

\* String.prototype.toLowerCase of one code point
LowerChar(c) ==
    CASE c \in 65..90 -> <<c + 32>>
      [] c = 201      -> <<233>>
      [] c = 7838     -> <<223>>
      [] c = 304      -> <<105, 775>>
      [] OTHER        -> <<c>>

\* String.prototype.toUpperCase of one code point (SpecialCasing.txt: the
\* sharp s and the ligature become two letters)
UpperChar(c) ==
    CASE c \in 97..122 -> <<c - 32>>
      [] c = 233       -> <<201>>
      [] c = 223       -> <<83, 83>>
      [] c = 64257     -> <<70, 73>>
      [] OTHER         -> <<c>>

\* the code points String.prototype.trim removes (WhiteSpace and LineTerminator)
IsWhiteSpace(c) == c \in {9, 10, 11, 12, 13, 32, 160, 5760, 8232, 8233, 8239, 8287, 12288, 65279} \cup (8192..8202)

-----------------------------------------------------------------------------
(* Strings *)

nfkd(s) == Concat([i \in 1..Len(s) |-> NFKDChar(s[i])])
stripDiacritics(s) == SelectSeq(s, LAMBDA c : ~IsDiacritic(c))
toLowerCase(s) == Concat([i \in 1..Len(s) |-> LowerChar(s[i])])
toUpperCase(s) == Concat([i \in 1..Len(s) |-> UpperChar(s[i])])

RECURSIVE trimStart(_)
trimStart(s) == IF s # <<>> /\ IsWhiteSpace(Head(s)) THEN trimStart(Tail(s)) ELSE s

RECURSIVE trimEnd(_)
trimEnd(s) ==
    IF s # <<>> /\ IsWhiteSpace(s[Len(s)]) THEN trimEnd(SubSeq(s, 1, Len(s) - 1)) ELSE s

\* String.prototype.trim
trim(s) == trimEnd(trimStart(s))

\* String.prototype.startsWith
startsWith(s, p) == Len(p) <= Len(s) /\ SubSeq(s, 1, Len(p)) = p

\* String.prototype.includes
includes(s, p) == \E i \in 0..(Len(s) - Len(p)) : SubSeq(s, i + 1, i + Len(p)) = p

\* a mutant of normalize: the diacritics are stripped before the string is decomposed
normalize_StripFirst(s) == toLowerCase(nfkd(stripDiacritics(s)))

\* normalize(str): NFKD, strip \p{Diacritic}, lower-case
normalize(s) == toLowerCase(stripDiacritics(nfkd(s)))

\* String.prototype.localeCompare (root collation) on normalized strings: the
\* primary weights of one code point; the sharp s sorts as "ss", every other
\* modelled code point by its own rank
CollationKey(c) == IF c = 223 THEN <<115, 115>> ELSE <<c>>

RECURSIVE lexCompare(_, _)
\* -1, 0 or 1 as a is before, equal to or after b, element by element
lexCompare(a, b) ==
    IF a = <<>> /\ b = <<>> THEN 0
    ELSE IF a = <<>> THEN -1
    ELSE IF b = <<>> THEN 1
    ELSE IF Head(a) < Head(b) THEN -1
    ELSE IF Head(a) > Head(b) THEN 1
    ELSE lexCompare(Tail(a), Tail(b))

\* a.localeCompare(b): by primary weights, and strings of equal primary
\* weights ("ss" and sharp s) by their code points
collate(s) == Concat([i \in 1..Len(s) |-> CollationKey(s[i])])

localeCompare(a, b) ==
    LET p == lexCompare(collate(a), collate(b))
    IN  IF p # 0 THEN p ELSE lexCompare(a, b)

\* (f \o <<>> writes a sequence given by a rule out as a tuple, so that it is
\* computed once.)

\* Array.prototype.sort(compareFn) on a copy, a stable sort (ECMAScript 2019):
\* cmp[i, j] is compareFn(s[i], s[j]); element i goes behind the elements that
\* compare lower and behind the earlier elements that compare equal
sort(s, cmp) ==
    LET n == Len(s)
        pos == [i \in 1..n |-> 1 + Cardinality({ j \in 1..n :
                        \/ cmp[j, i] < 0
                        \/ cmp[j, i] = 0 /\ j < i })] \o <<>>
    IN  [k \in 1..n |-> s[CHOOSE i \in 1..n : pos[i] = k]]

RECURSIVE levRow_NoSubstitution(_, _, _, _)
\* a mutant of levRow: a differing character costs a deletion and an insertion
levRow_NoSubstitution(prev, ai, b, cur) ==
    IF Len(cur) = Len(b) + 1 THEN cur
    ELSE LET j == Len(cur)
             cost == IF ai = b[j] THEN 0 ELSE 2
             cell == Min(Min(prev[j + 1] + 1, cur[j] + 1), prev[j] + cost)
         IN  levRow_NoSubstitution(prev, ai, b, Append(cur, cell))

RECURSIVE levRow(_, _, _, _)
\* row i of the table dp, filled left to right: cur holds dp[i][0..j-1],
\* prev is row i-1, ai is a[i-1]
levRow(prev, ai, b, cur) ==
    IF Len(cur) = Len(b) + 1 THEN cur
    ELSE LET j == Len(cur)
             cost == IF ai = b[j] THEN 0 ELSE 1
             cell == Min(Min(prev[j + 1] + 1, cur[j] + 1), prev[j] + cost)
         IN  levRow(prev, ai, b, Append(cur, cell))

RECURSIVE levRows(_, _, _, _)
\* rows i..m of dp; returns row m
levRows(a, b, i, prev) ==
    IF i > Len(a) THEN prev
    ELSE levRows(a, b, i + 1, levRow(prev, a[i], b, <<i>>))

\* the table dp of levenshtein over a and b as given: dp[m][n], or the other
\* length when one of them is empty
editTable(a, b) ==
    LET m == Len(a)
        n == Len(b)
    IN  IF m = 0 THEN n
        ELSE IF n = 0 THEN m
        ELSE levRows(a, b, 1, [j \in 1..(n + 1) |-> j - 1])[n + 1]

\* a mutant of levenshtein: the arguments are compared as given
levenshtein_Raw(a, b) == editTable(a, b)

\* levenshtein(a, b): both arguments are normalized, then the table is filled
levenshtein(a, b) == editTable(normalize(a), normalize(b))

-----------------------------------------------------------------------------
(* The derived values of a render *)

\* a mutant of sorted: the direction of the sort is ignored
sorted_Ascending ==
    LET key == [i \in 1..Len(entries) |-> normalize(entries[i].begriff)] \o <<>>
    IN  sort(entries, [i, j \in 1..Len(entries) |-> localeCompare(key[i], key[j])])

\* const sorted = useMemo(...): a sorted copy of entries, reversed for Z->A
sorted ==
    LET key == [i \in 1..Len(entries) |-> normalize(entries[i].begriff)] \o <<>>
        arr == sort(entries, [i, j \in 1..Len(entries) |-> localeCompare(key[i], key[j])])
    IN  IF sortAsc THEN arr ELSE Reverse(arr)

\* a mutant of exact: the entry's term is compared as spelled
exact_RawTerm(srt, nq) == SelectSeq(srt, LAMBDA e : e.begriff = nq)

\* const exact = sorted.filter(...): the entries whose normalized term is nq
exact(srt, nq) == SelectSeq(srt, LAMBDA e : normalize(e.begriff) = nq)

\* a mutant of partial: a prefix test in place of the substring test
partial_PrefixOnly(srt, nq) == SelectSeq(srt, LAMBDA e : startsWith(normalize(e.begriff), nq))

\* const partial = sorted.filter(...): the entries whose normalized term includes nq
partial(srt, nq) == SelectSeq(srt, LAMBDA e : includes(normalize(e.begriff), nq))

\* a mutant of the fuzzy tier: distances below the tolerance only
fuzzyMatches_Strict(srt, nq, tol) ==
    LET scored == [i \in 1..Len(srt) |-> [e |-> srt[i], d |-> levenshtein(nq, srt[i].begriff)]] \o <<>>
        kept == SelectSeq(scored, LAMBDA x : x.d < tol)
        ranked == sort(kept, [i, j \in 1..Len(kept) |-> kept[i].d - kept[j].d])
    IN  [i \in 1..Len(ranked) |-> ranked[i].e]

\* sorted.map(e => ({e, d})).filter(x => x.d <= fuzzyTol).sort((a, b) => a.d - b.d).map(x => x.e)
fuzzyMatches(srt, nq, tol) ==
    LET scored == [i \in 1..Len(srt) |-> [e |-> srt[i], d |-> levenshtein(nq, srt[i].begriff)]] \o <<>>
        kept == SelectSeq(scored, LAMBDA x : x.d <= tol)
        ranked == sort(kept, [i, j \in 1..Len(kept) |-> kept[i].d - kept[j].d])
    IN  [i \in 1..Len(ranked) |-> ranked[i].e]

\* a mutant of results: the fuzzy tier runs whatever the fuzzy setting
results_AlwaysFuzzy ==
    LET srt == sorted
        q == trim(query)
        nq == normalize(q)
        ex == exact(srt, nq)
        part == partial(srt, nq)
    IN  IF q = <<>> THEN srt
        ELSE IF ex # <<>> THEN ex
        ELSE IF part # <<>> THEN part
        ELSE fuzzyMatches(srt, nq, fuzzyTol)

\* a mutant of results: the query is tested for emptiness before it is trimmed
results_NoTrim ==
    LET srt == sorted
        q == query
        nq == normalize(q)
        ex == exact(srt, nq)
        part == partial(srt, nq)
    IN  IF q = <<>> THEN srt
        ELSE IF ex # <<>> THEN ex
        ELSE IF part # <<>> THEN part
        ELSE IF fuzzy THEN fuzzyMatches(srt, nq, fuzzyTol)
        ELSE <<>>

\* const results = useMemo(...): the whole list for an empty query, else the
\* first non-empty tier of exact, substring and (if enabled) fuzzy
results ==
    LET srt == sorted
        q == trim(query)
        nq == normalize(q)
        ex == exact(srt, nq)
        part == partial(srt, nq)
    IN  IF q = <<>> THEN srt
        ELSE IF ex # <<>> THEN ex
        ELSE IF part # <<>> THEN part
        ELSE IF fuzzy THEN fuzzyMatches(srt, nq, fuzzyTol)
        ELSE <<>>

\* the number of suggestions shown (slice(0, 8))
SuggestLimit == 8

\* a mutant of suggestions: the interior matches are not restricted to non-prefix ones
suggestions_RestAll ==
    LET srt == sorted
        nq == normalize(query)
        starts == SelectSeq(srt, LAMBDA e : startsWith(normalize(e.begriff), nq))
        rest == SelectSeq(srt, LAMBDA e : includes(normalize(e.begriff), nq))
    IN  IF nq = <<>> THEN <<>> ELSE Slice0(starts \o rest, SuggestLimit)

\* a mutant of suggestions: no early return for the empty query
suggestions_NoGuard ==
    LET srt == sorted
        nq == normalize(query)
        starts == SelectSeq(srt, LAMBDA e : startsWith(normalize(e.begriff), nq))
        rest == SelectSeq(srt, LAMBDA e :
                    ~startsWith(normalize(e.begriff), nq) /\ includes(normalize(e.begriff), nq))
    IN  Slice0(starts \o rest, SuggestLimit)

\* const suggestions = useMemo(...) of the first revision: nothing for a query
\* whose normalized form is empty, else the prefix matches, then the other
\* substring matches, at most 8
suggestions ==
    LET srt == sorted
        nq == normalize(query)
        starts == SelectSeq(srt, LAMBDA e : startsWith(normalize(e.begriff), nq))
        rest == SelectSeq(srt, LAMBDA e :
                    ~startsWith(normalize(e.begriff), nq) /\ includes(normalize(e.begriff), nq))
    IN  IF nq = <<>> THEN <<>> ELSE Slice0(starts \o rest, SuggestLimit)

-----------------------------------------------------------------------------
(* SpecNorm: calls of normalize on every string over NormChars of length   *)
(* at most MaxStrLen.                                                      *)

NormChars == {32, 65, 97, 201, 233, 769, 223, 7838, 94, 168, 64257, 304}

\* "Musterquelle 1", "Buch, Artikel oder Website"
defaultSources ==
    << [quelle |-> <<77, 117, 115, 116, 101, 114, 113, 117, 101, 108, 108, 101, 32, 49>>,
        beschreibung |-> <<66, 117, 99, 104, 44, 32, 65, 114, 116, 105, 107, 101, 108, 32, 111,
                           100, 101, 114, 32, 87, 101, 98, 115, 105, 116, 101>>] >>

\* the sources, the storage and the effects at rest: booted, nothing stored,
\* nothing to run
SourcesIdle ==
    /\ sources = defaultSources
    /\ newQuelle = <<>>
    /\ newBeschr = <<>>
    /\ sourceQ = <<>>
    /\ sourceB = <<>>

BootIdle ==
    /\ bootDone = TRUE
    /\ lsEntries = <<>>
    /\ lsEntriesV2 = <<>>
    /\ lsSources = <<>>
    /\ effects = <<>>
    /\ committed = <<>>

\* no glossary file in the cloud, no load pending or reported
CloudIdle ==
    /\ cloudFile = <<>>
    /\ cloudLoad = <<>>
    /\ cloudAlert = <<>>

ExtraIdle ==
    /\ view = <<>>
    /\ SourcesIdle
    /\ BootIdle
    /\ CloudIdle

AppIdle ==
    /\ entries = <<>>
    /\ query = <<>>
    /\ fuzzy = TRUE
    /\ fuzzyTol = 2
    /\ sortAsc = TRUE
    /\ detailOpen = FALSE
    /\ selected = <<>>
    /\ editorOpen = FALSE
    /\ editorMode = "create"
    /\ editorIndex = <<>>
    /\ formBegriff = <<>>
    /\ formDef = <<>>
    /\ formBsp = <<>>
    /\ formQ = <<>>
    /\ modalOpen = FALSE
    /\ importFile = <<>>
    /\ steps = 0
    /\ ExtraIdle

PairIdle ==
    /\ other = <<>>
    /\ otherNorm = <<>>
    /\ lev = 0
    /\ levRev = 0

NormInit ==
    /\ AppIdle
    /\ str \in SeqsUpTo(NormChars, MaxStrLen)
    /\ stage = "arg"
    /\ once = <<>>
    /\ twice = <<>>
    /\ upper = <<>>
    /\ PairIdle

\* once = normalize(str)
CallNormalize ==
    /\ stage = "arg"
    /\ once' = normalize(str)
    /\ stage' = "once"
    /\ UNCHANGED <<appVars, str, twice, upper, pairVars>>

\* twice = normalize(once)
CallNormalizeAgain ==
    /\ stage = "once"
    /\ twice' = normalize(once)
    /\ stage' = "twice"
    /\ UNCHANGED <<appVars, str, once, upper, pairVars>>

\* upper = normalize(str.toUpperCase())
CallNormalizeUpper ==
    /\ stage = "once"
    /\ upper' = normalize(toUpperCase(str))
    /\ stage' = "upper"
    /\ UNCHANGED <<appVars, str, once, twice, pairVars>>

NormNext == CallNormalize \/ CallNormalizeAgain \/ CallNormalizeUpper

SpecNorm == NormInit /\ [][NormNext]_vars

-----------------------------------------------------------------------------
(* Claims about normalize *)

\* C9: normalize is idempotent: normalizing the result of normalize(str)
\* gives that result again, for every string str.
C9_NormalizeIdempotent == stage = "twice" => twice = once

\* C9 witness: normalize was applied twice to a string it changes (accent and case)
C9_Witness == stage = "twice" /\ once # str /\ \E i \in 1..Len(str) : str[i] \in {201, 233, 304}

\* C10: normalize is case-insensitive: normalize(str) = normalize(toUpper(str))
\* for every string str, also when upper-casing changes the length (sharp s).
C10_NormalizeCaseInsensitive == stage = "upper" => upper = once

-----------------------------------------------------------------------------
(* SpecPair: normalize and levenshtein applied to a pair of strings. *)

\* "a", "E", e-acute, U+0301 COMBINING ACUTE ACCENT, U+0358 COMBINING DOT ABOVE RIGHT
PairChars == {97, 69, 233, 769, 856}

\* "", "e", U+0301 alone, "ea", "a" E-acute, "Eae", "e" U+0358
PairOthers == { <<>>, <<101>>, <<769>>, <<101, 97>>, <<97, 201>>, <<69, 97, 101>>, <<101, 856>> }

PairInit ==
    /\ AppIdle
    /\ str \in SeqsUpTo(PairChars, MaxPairLen)
    /\ other \in PairOthers
    /\ stage = "pair"
    /\ once = <<>>
    /\ twice = <<>>
    /\ upper = <<>>
    /\ otherNorm = <<>>
    /\ lev = 0
    /\ levRev = 0

\* once = normalize(str), otherNorm = normalize(other)
CallNormalizePair ==
    /\ stage = "pair"
    /\ once' = normalize(str)
    /\ otherNorm' = normalize(other)
    /\ stage' = "normalized"
    /\ UNCHANGED <<appVars, str, twice, upper, other, lev, levRev>>

\* lev = levenshtein(str, other)
CallLevenshtein ==
    /\ stage = "pair"
    /\ lev' = levenshtein(str, other)
    /\ stage' = "called"
    /\ UNCHANGED <<appVars, str, once, twice, upper, other, otherNorm, levRev>>

\* levRev = levenshtein(other, str)
CallLevenshteinReversed ==
    /\ stage = "called"
    /\ levRev' = levenshtein(other, str)
    /\ stage' = "calledRev"
    /\ UNCHANGED <<appVars, str, once, twice, upper, other, otherNorm, lev>>

PairNext == CallNormalizePair \/ CallLevenshtein \/ CallLevenshteinReversed

SpecPair == PairInit /\ [][PairNext]_vars

-----------------------------------------------------------------------------
(* Claims about normalize and levenshtein on pairs of strings *)

\* the combining marks of the block Combining Diacritical Marks (U+0300..U+036F)
IsCombiningMark(c) == c \in 768..879

\* every mark of s sits on a base character: the decomposed string does not
\* start with a mark
MarksOnBase(s) == nfkd(s) = <<>> \/ ~IsCombiningMark(nfkd(s)[1])

\* s without its marks and its case: the base characters of the decomposed
\* string, lower-cased
Skeleton(s) == toLowerCase(SelectSeq(nfkd(s), LAMBDA c : ~IsCombiningMark(c)))

\* C11: normalize is accent-insensitive: two strings that differ only by
\* diacritical marks on their base characters, and by case, have the same
\* normalized form.  normalize removes the code points of the property
\* Diacritic, which U+0358 COMBINING DOT ABOVE RIGHT does not have: "e" and
\* "e" U+0358 keep different normalized forms.
C11_AccentInsensitive ==
    (/\ stage = "normalized"
     /\ MarksOnBase(str) /\ MarksOnBase(other)
     /\ Skeleton(str) = Skeleton(other))
    => once = otherNorm

\* the k-th smallest element of a set of numbers
KthOf(S, k) == CHOOSE x \in S : Cardinality({ y \in S : y <= x }) = k

\* the cost of the edit script that keeps or substitutes the positions I of a
\* on the positions J of b, in order, deletes the other positions of a and
\* inserts the other positions of b
ScriptCost(a, b, I, J) ==
    (Len(a) - Cardinality(I)) + (Len(b) - Cardinality(J))
    + Cardinality({ k \in 1..Cardinality(I) : a[KthOf(I, k)] # b[KthOf(J, k)] })

\* the edit distance of a and b: the least cost of an edit script
EditDistance(a, b) ==
    LET costs == { ScriptCost(a, b, I, J) :
                     <<I, J>> \in { p \in (SUBSET (1..Len(a))) \X (SUBSET (1..Len(b))) :
                                       Cardinality(p[1]) = Cardinality(p[2]) } }
    IN  CHOOSE c \in costs : \A d \in costs : c <= d

\* C12: levenshtein(a, b) is the edit distance of normalize(a) and
\* normalize(b): the least number of insertions, deletions and substitutions
\* of one character that turn one into the other; it is 0 exactly when the
\* normalized strings are equal, and levenshtein(b, a) is the same number.
C12_LevenshteinEditDistance ==
    stage = "calledRev" =>
        LET na == normalize(str)
            nb == normalize(other)
        IN  /\ lev = EditDistance(na, nb)
            /\ (lev = 0) <=> (na = nb)
            /\ levRev = lev

\* C12 witness: a distance of 2 between strings of the same normalized length
\* (two substitutions), where normalizing changed the first string
C12_Witness ==
    /\ stage = "calledRev"
    /\ lev = 2
    /\ Len(normalize(str)) = Len(normalize(other))
    /\ normalize(str) # str

\* C13: when normalize(a) or normalize(b) is empty, levenshtein(a, b) is the
\* length of the other normalized string.
C13_LevenshteinEmptyArgument ==
    stage = "calledRev" =>
        LET na == normalize(str)
            nb == normalize(other)
        IN  /\ na = <<>> => (lev = Len(nb) /\ levRev = Len(nb))
            /\ nb = <<>> => (lev = Len(na) /\ levRev = Len(na))

\* C13 witness: a string of marks only, which normalizes to the empty string,
\* against a string that does not
C13_Witness ==
    /\ stage = "calledRev"
    /\ str # <<>> /\ normalize(str) = <<>>
    /\ normalize(other) # <<>>
    /\ lev = Len(normalize(other))

-----------------------------------------------------------------------------
(* SpecSearch: the search controls of App.tsx over a fixed term collection. *)

UtilIdle ==
    /\ str = <<>>
    /\ stage = "idle"
    /\ once = <<>>
    /\ twice = <<>>
    /\ upper = <<>>
    /\ PairIdle

\* an entry with the term t and nothing else
TermOnly(t) == [begriff |-> t, definition |-> <<>>, beispiel |-> <<>>, quellen |-> <<>>]

\* "ab", "Ab", "cab", e-acute "b"
SearchTerms == { <<97, 98>>, <<65, 98>>, <<99, 97, 98>>, <<233, 98>> }

\* "", " ", " AB ", "a", E-acute "x", "^", "zzzzz"
SearchQueries == { <<>>, <<32>>, <<32, 65, 66, 32>>, <<97>>, <<201, 120>>,
                   <<94>>, <<122, 122, 122, 122, 122>> }

\* the options of the "Toleranz" select
Tolerances == 0..3

SearchInit ==
    /\ entries \in SeqsUpTo({ TermOnly(t) : t \in SearchTerms }, MaxSearchEntries)
    /\ query = <<>>
    /\ fuzzy = TRUE
    /\ fuzzyTol = 2
    /\ sortAsc = TRUE
    /\ detailOpen = FALSE
    /\ selected = <<>>
    /\ editorOpen = FALSE
    /\ editorMode = "create"
    /\ editorIndex = <<>>
    /\ formBegriff = <<>>
    /\ formDef = <<>>
    /\ formBsp = <<>>
    /\ formQ = <<>>
    /\ modalOpen = FALSE
    /\ importFile = <<>>
    /\ steps = 0
    /\ ExtraIdle
    /\ UtilIdle

searchFrame == <<entries, detailOpen, selected, editorOpen, editorMode, editorIndex,
                 formBegriff, formDef, formBsp, formQ, modalOpen, importFile, steps, extraVars, utilVars>>

\* onChange of the search box: setQuery(e.target.value)
SetQuery(queries) ==
    /\ \E v \in queries : query' = v
    /\ UNCHANGED <<fuzzy, fuzzyTol, sortAsc, searchFrame>>

SearchSetQuery == SetQuery(SearchQueries)

\* onChange of the "Unscharf" select
SetFuzzy ==
    /\ \E v \in BOOLEAN : fuzzy' = v
    /\ UNCHANGED <<query, fuzzyTol, sortAsc, searchFrame>>

\* onChange of the "Toleranz" select
SetFuzzyTol ==
    /\ \E n \in Tolerances : fuzzyTol' = n
    /\ UNCHANGED <<query, fuzzy, sortAsc, searchFrame>>

\* the sort button: setSortAsc(v => !v)
ToggleSort ==
    /\ sortAsc' = ~sortAsc
    /\ UNCHANGED <<query, fuzzy, fuzzyTol, searchFrame>>

SearchNext == SearchSetQuery \/ SetFuzzy \/ SetFuzzyTol \/ ToggleSort

SpecSearch == SearchInit /\ [][SearchNext]_vars

-----------------------------------------------------------------------------
(* Claims about results *)

\* the k-th smallest element of a finite set of numbers
Nth(I, k) == CHOOSE i \in I : Cardinality({ j \in I : j < i }) = k - 1

\* the elements of s at the positions I, in the order of s
At(s, I) == [k \in 1..Cardinality(I) |-> s[Nth(I, k)]]

\* the query as search reads it
TrimmedQuery == trim(query)
NormQuery == normalize(trim(query))

\* the normalized terms of the sequence srt
NormTerms(srt) == [i \in 1..Len(srt) |-> normalize(srt[i].begriff)] \o <<>>

\* the positions of terms that equal / contain nq
ExactAt(terms, nq) == { i \in 1..Len(terms) : terms[i] = nq }
PartialAt(terms, nq) == { i \in 1..Len(terms) : includes(terms[i], nq) }

\* the edit distances of nq and each of terms
Distances(terms, nq) == [i \in 1..Len(terms) |-> editTable(nq, terms[i])] \o <<>>
FuzzyAt(dist, tol) == { i \in 1..Len(dist) : dist[i] <= tol }

\* the elements of srt at the positions I by ascending distance, equal
\* distances in input order
ByDistance(srt, dist, I) ==
    LET rank == [i \in 1..Len(srt) |->
                    1 + Cardinality({ j \in I : dist[j] < dist[i] \/ (dist[j] = dist[i] /\ j < i) })] \o <<>>
    IN  [k \in 1..Cardinality(I) |-> srt[CHOOSE i \in I : rank[i] = k]]

\* C2: exact tier: for a query that is non-empty after trimming and matched
\* exactly by some entry, the result is the exactly matching entries of the
\* input, in input order, and nothing else.
C2_ExactTier ==
    LET srt == sorted
        nq == NormQuery
        terms == NormTerms(srt)
        res == results
    IN  (TrimmedQuery # <<>> /\ ExactAt(terms, nq) # {}) =>
            /\ res = At(srt, ExactAt(terms, nq))
            /\ \A k \in 1..Len(res) : normalize(res[k].begriff) = nq

\* C2 witness: two entries match exactly, another matches only by substring
\* and edit distance, and the fuzzy tier is enabled
C2_Witness ==
    LET srt == sorted
        nq == NormQuery
        terms == NormTerms(srt)
        ex == ExactAt(terms, nq)
    IN  /\ TrimmedQuery # <<>>
        /\ Cardinality(ex) = 2
        /\ PartialAt(terms, nq) \ ex # {}
        /\ FuzzyAt(Distances(terms, nq), fuzzyTol) \ ex # {}
        /\ fuzzy
        /\ srt[Nth(ex, 1)] # srt[Nth(ex, 2)]

\* C3: substring tier: for a non-empty trimmed query without an exact match and
\* with a substring match, the result is all entries whose normalized term
\* contains the normalized query, in input order, whatever fuzzy and tolerance.
C3_SubstringTier ==
    LET srt == sorted
        nq == NormQuery
        terms == NormTerms(srt)
    IN  (TrimmedQuery # <<>> /\ ExactAt(terms, nq) = {} /\ PartialAt(terms, nq) # {}) =>
            results = At(srt, PartialAt(terms, nq))

\* C3 witness: two substring matches of which one is no prefix match, a
\* non-matching entry within the tolerance, fuzzy enabled
C3_Witness ==
    LET srt == sorted
        nq == NormQuery
        terms == NormTerms(srt)
        part == PartialAt(terms, nq)
    IN  /\ TrimmedQuery # <<>> /\ nq # <<>>
        /\ ExactAt(terms, nq) = {}
        /\ Cardinality(part) = 2
        /\ \E i \in part : ~startsWith(terms[i], nq)
        /\ FuzzyAt(Distances(terms, nq), fuzzyTol) \ part # {}
        /\ fuzzy

\* C4: fuzzy tier: with fuzzy enabled and no exact and no substring match, the
\* result is the entries whose edit distance (normalized query against
\* normalized term) is at most fuzzyTol, by ascending distance, entries of
\* equal distance in input order.
C4_FuzzyTier ==
    LET srt == sorted
        nq == NormQuery
        terms == NormTerms(srt)
        dist == Distances(terms, nq)
    IN  (fuzzy /\ TrimmedQuery # <<>> /\ ExactAt(terms, nq) = {} /\ PartialAt(terms, nq) = {}) =>
            results = ByDistance(srt, dist, FuzzyAt(dist, fuzzyTol))

\* C4 witness: the fuzzy tier returns an entry at exactly the tolerance, the
\* input holds a farther entry that it drops, a nearer entry stands behind a
\* farther one in the input, and one entry is nearer in normalized form than
\* as spelled
C4_Witness ==
    LET srt == sorted
        nq == NormQuery
        terms == NormTerms(srt)
        dist == Distances(terms, nq)
        fz == FuzzyAt(dist, fuzzyTol)
    IN  /\ fuzzy /\ TrimmedQuery # <<>> /\ ExactAt(terms, nq) = {} /\ PartialAt(terms, nq) = {}
        /\ \E i \in fz : dist[i] = fuzzyTol
        /\ \E i \in 1..Len(srt) : dist[i] > fuzzyTol
        /\ \E i, j \in fz : i < j /\ dist[j] < dist[i]
        /\ \E i \in fz : editTable(nq, srt[i].begriff) > dist[i]

\* C5: with fuzzy disabled, a non-empty trimmed query that no entry matches
\* exactly or by substring yields the empty result, for every tolerance.
C5_FuzzyDisabled ==
    LET nq == NormQuery
        terms == NormTerms(sorted)
    IN  (~fuzzy /\ TrimmedQuery # <<>> /\ ExactAt(terms, nq) = {} /\ PartialAt(terms, nq) = {}) =>
            results = <<>>

\* C5 witness: fuzzy is disabled and an entry lies within the tolerance
C5_Witness ==
    LET nq == NormQuery
        terms == NormTerms(sorted)
    IN  /\ ~fuzzy /\ TrimmedQuery # <<>> /\ ExactAt(terms, nq) = {} /\ PartialAt(terms, nq) = {}
        /\ FuzzyAt(Distances(terms, nq), fuzzyTol) # {}

\* C6: a query that is empty after trimming yields the input sequence
\* unchanged, for every fuzzy setting and tolerance.
C6_EmptyQuery == TrimmedQuery = <<>> => results = sorted

\* C6 witness: a query of white space only, over at least two entries, sorted Z->A
C6_Witness ==
    /\ query # <<>> /\ TrimmedQuery = <<>>
    /\ Len(entries) >= 2 /\ ~sortAsc /\ ~fuzzy /\ fuzzyTol = 0
    /\ sorted # entries

-----------------------------------------------------------------------------
(* SpecSuggest: the search box of the first revision (part_000) over a      *)
(* fixed term collection that may hold more matches than suggestions shown. *)

\* "ab", "ba"
SuggestTerms == { <<97, 98>>, <<98, 97>> }

\* "ab", "ba", "cc"
MixedTerms == SuggestTerms \cup { <<99, 99>> }

\* "", "a", "B", "^", " a"
SuggestQueries == { <<>>, <<97>>, <<66>>, <<94>>, <<32, 97>> }

SuggestInit ==
    /\ entries \in SeqsUpTo({ TermOnly(t) : t \in SuggestTerms }, MaxSuggestEntries)
                    \cup SeqsUpTo({ TermOnly(t) : t \in MixedTerms }, MaxMixedEntries)
    /\ query = <<>>
    /\ fuzzy = TRUE
    /\ fuzzyTol = 2
    /\ sortAsc = TRUE
    /\ detailOpen = FALSE
    /\ selected = <<>>
    /\ editorOpen = FALSE
    /\ editorMode = "create"
    /\ editorIndex = <<>>
    /\ formBegriff = <<>>
    /\ formDef = <<>>
    /\ formBsp = <<>>
    /\ formQ = <<>>
    /\ modalOpen = FALSE
    /\ importFile = <<>>
    /\ steps = 0
    /\ ExtraIdle
    /\ UtilIdle

SuggestSetQuery == SetQuery(SuggestQueries)

SuggestNext == SuggestSetQuery \/ ToggleSort

SpecSuggest == SuggestInit /\ [][SuggestNext]_vars

-----------------------------------------------------------------------------
(* Claims about suggestions *)

\* how often x occurs in the sequence s
Count(s, x) == Cardinality({ i \in 1..Len(s) : s[i] = x })

\* the positions of terms that start with nq / contain nq without starting with it
PrefixAt(terms, nq) == { i \in 1..Len(terms) : startsWith(terms[i], nq) }
InteriorAt(terms, nq) == { i \in 1..Len(terms) : includes(terms[i], nq) /\ ~startsWith(terms[i], nq) }

\* what the claim C7 says suggest returns for the normalized query nq
Suggested(srt, nq) ==
    LET terms == NormTerms(srt)
        all == At(srt, PrefixAt(terms, nq)) \o At(srt, InteriorAt(terms, nq))
    IN  SubSeq(all, 1, Min(SuggestLimit, Len(all)))

\* at most 8 entries, none listed more often than the input holds it, no
\* non-prefix match before a prefix match
WellFormedSuggestions(sug, srt, nq) ==
    /\ Len(sug) <= SuggestLimit
    /\ \A k \in 1..Len(sug) : Count(sug, sug[k]) <= Count(srt, sug[k])
    /\ \A i, j \in 1..Len(sug) :
          (i < j /\ startsWith(normalize(sug[j].begriff), nq))
              => startsWith(normalize(sug[i].begriff), nq)

\* C7 (as claimed): for every non-empty query, suggest returns the prefix
\* matches of the normalized query in input order, then the other substring
\* matches in input order, cut to the first 8: never more than 8 entries,
\* none twice, no non-prefix match before a prefix match.
C7_SuggestNonEmptyQuery ==
    LET srt == sorted
        nq == normalize(query)
        sug == suggestions
    IN  query # <<>> =>
            /\ sug = Suggested(srt, nq)
            /\ WellFormedSuggestions(sug, srt, nq)

\* C7 (amended): the same for every query whose normalized form is non-empty.
C7_SuggestNormalizedNonEmpty ==
    LET srt == sorted
        nq == normalize(query)
        sug == suggestions
    IN  nq # <<>> =>
            /\ sug = Suggested(srt, nq)
            /\ WellFormedSuggestions(sug, srt, nq)

\* C7 witness: more than 8 entries match, a prefix match stands behind a
\* non-prefix match in the input, and the 8 suggestions hold both kinds
C7_Witness ==
    LET srt == sorted
        nq == normalize(query)
        terms == NormTerms(srt)
        sug == suggestions
    IN  /\ nq # <<>>
        /\ Cardinality(PrefixAt(terms, nq)) + Cardinality(InteriorAt(terms, nq)) > SuggestLimit
        /\ \E i \in InteriorAt(terms, nq), j \in PrefixAt(terms, nq) : i < j
        /\ Len(sug) = SuggestLimit
        /\ \E k \in 1..Len(sug) : ~startsWith(normalize(sug[k].begriff), nq)
        /\ startsWith(normalize(sug[1].begriff), nq)

\* C8: for the empty query suggest returns the empty sequence, whatever the
\* term collection, while search returns the whole input sequence.
C8_EmptyQuerySuggest == query = <<>> => (suggestions = <<>> /\ results = sorted)

\* C8 witness: the empty query over more entries than suggestions are shown, sorted Z->A
C8_Witness == query = <<>> /\ Len(entries) > SuggestLimit /\ ~sortAsc /\ sorted # entries

-----------------------------------------------------------------------------
(* SpecRender: the search controls, each followed by the render it causes.  *)
(* The memo of sorted works on arrays in place (sort, reverse); the arrays  *)
(* it touches are followed through the render.                              *)

\* a mutant of sortedMemo: entries.sort(...) without the spread, so that arr
\* is the array entries itself
sortedMemo_NoSpread(ents, asc) ==
    LET key == [i \in 1..Len(ents) |-> normalize(ents[i].begriff)] \o <<>>
        arr == sort(ents, [i, j \in 1..Len(ents) |-> localeCompare(key[i], key[j])])
        out == IF asc THEN arr ELSE Reverse(arr)
    IN  [entries |-> out, sorted |-> out]

\* the memo of sorted run on the array ents: [...entries] is a new array,
\* sort orders that array in place and returns it, reverse turns it around in
\* place.  The record holds the two arrays afterwards.
sortedMemo(ents, asc) ==
    LET copy == ents
        key == [i \in 1..Len(copy) |-> normalize(copy[i].begriff)] \o <<>>
        arr == sort(copy, [i, j \in 1..Len(copy) |-> localeCompare(key[i], key[j])])
        out == IF asc THEN arr ELSE Reverse(arr)
    IN  [entries |-> ents, sorted |-> out]

\* the derived values of a render; results and suggestions build their lists
\* with filter, map, slice and spread, which return new arrays
rendered == [sorted |-> sorted, results |-> results, suggestions |-> suggestions]

\* "", "a", "xb"
RenderQueries == { <<>>, <<97>>, <<120, 98>> }

RenderInit ==
    /\ entries \in SeqsUpTo({ TermOnly(t) : t \in SearchTerms }, MaxRenderEntries)
    /\ query = <<>>
    /\ fuzzy = TRUE
    /\ fuzzyTol = 2
    /\ sortAsc = TRUE
    /\ detailOpen = FALSE
    /\ selected = <<>>
    /\ editorOpen = FALSE
    /\ editorMode = "create"
    /\ editorIndex = <<>>
    /\ formBegriff = <<>>
    /\ formDef = <<>>
    /\ formBsp = <<>>
    /\ formQ = <<>>
    /\ modalOpen = FALSE
    /\ importFile = <<>>
    /\ steps = 0
    /\ view = <<rendered>>
    /\ SourcesIdle
    /\ BootIdle
    /\ CloudIdle
    /\ UtilIdle

renderFrame == <<detailOpen, selected, editorOpen, editorMode, editorIndex,
                 formBegriff, formDef, formBsp, formQ, modalOpen, importFile, steps,
                 sourceVars, bootVars, cloudVars, utilVars>>

\* a handler has set state and the render is still to come
renderPending == view = <<>>

\* the render after a state change: the memos run on the settings and on the
\* array entries
Rerender ==
    /\ renderPending
    /\ entries' = sortedMemo(entries, sortAsc).entries
    /\ view' = <<rendered>>
    /\ UNCHANGED <<query, fuzzy, fuzzyTol, sortAsc, renderFrame>>

\* onChange of the search box; the render follows
QueryChanged ==
    /\ ~renderPending
    /\ \E v \in RenderQueries : query' = v
    /\ view' = <<>>
    /\ UNCHANGED <<entries, fuzzy, fuzzyTol, sortAsc, renderFrame>>

\* onChange of the "Unscharf" select; the render follows
FuzzyChanged ==
    /\ ~renderPending
    /\ \E v \in BOOLEAN : fuzzy' = v
    /\ view' = <<>>
    /\ UNCHANGED <<entries, query, fuzzyTol, sortAsc, renderFrame>>

\* onChange of the "Toleranz" select; the render follows
FuzzyTolChanged ==
    /\ ~renderPending
    /\ \E n \in Tolerances : fuzzyTol' = n
    /\ view' = <<>>
    /\ UNCHANGED <<entries, query, fuzzy, sortAsc, renderFrame>>

\* the sort button; the render follows
SortChanged ==
    /\ ~renderPending
    /\ sortAsc' = ~sortAsc
    /\ view' = <<>>
    /\ UNCHANGED <<entries, query, fuzzy, fuzzyTol, renderFrame>>

RenderNext == QueryChanged \/ FuzzyChanged \/ FuzzyTolChanged \/ SortChanged \/ Rerender

SpecRender == RenderInit /\ [][RenderNext]_vars

\* C16: sorting, search and suggest never modify the term collection: after a
\* render has computed sorted, results and suggestions, for any query and
\* settings, entries holds the same entries in the same order as before.
C16_RenderKeepsEntries == [][entries' = entries]_vars

\* C16 witness: a render for a query has sorted and reversed a copy that is
\* in another order than entries, and has results and suggestions to show
C16_Witness ==
    /\ view # <<>>
    /\ query # <<>>
    /\ ~sortAsc
    /\ view[1].sorted # entries
    /\ view[1].results # <<>>
    /\ view[1].suggestions # <<>>

-----------------------------------------------------------------------------
(* SpecSources: the source collection under the handlers that add and      *)
(* remove sources: addNewSourceInEditor of App.tsx, and the form and the   *)
(* remove button of the Sources list of the earlier revision.              *)

\* "Musterquelle 1"
Musterquelle == <<77, 117, 115, 116, 101, 114, 113, 117, 101, 108, 108, 101, 32, 49>>

\* what the user types as the label of a source: " ", "Q", " Q ", "Musterquelle 1"
SourceLabels == { <<32>>, <<81>>, <<32, 81, 32>>, Musterquelle }

\* the term collection of SpecSources: one entry "ab" that refers to "Musterquelle 1"
SourcesEntries ==
    << [begriff |-> <<97, 98>>, definition |-> <<>>, beispiel |-> <<>>,
        quellen |-> <<Musterquelle>>] >>

\* the editor is open in create mode, as openEditorCreate leaves it
SourcesInit ==
    /\ entries = SourcesEntries
    /\ query = <<>>
    /\ fuzzy = TRUE
    /\ fuzzyTol = 2
    /\ sortAsc = TRUE
    /\ detailOpen = FALSE
    /\ selected = <<>>
    /\ editorOpen = TRUE
    /\ editorMode = "create"
    /\ editorIndex = <<>>
    /\ formBegriff = <<>>
    /\ formDef = <<>>
    /\ formBsp = <<>>
    /\ formQ = <<>>
    /\ modalOpen = FALSE
    /\ importFile = <<>>
    /\ steps = 0
    /\ view = <<>>
    /\ SourcesIdle
    /\ BootIdle
    /\ CloudIdle
    /\ UtilIdle

sourcesRest == <<query, fuzzy, fuzzyTol, sortAsc, detailOpen, selected,
                 editorOpen, editorMode, editorIndex, formBegriff, formDef, formBsp,
                 modalOpen, importFile, steps, view, bootVars, cloudVars, utilVars>>
sourcesFrame == <<entries, sourcesRest>>

\* the editor's input for a new source: setNewQuelle(e.target.value)
SetNewQuelle ==
    /\ editorOpen
    /\ \E v \in SourceLabels : newQuelle' = v
    /\ UNCHANGED <<sources, newBeschr, sourceQ, sourceB, formQ, sourcesFrame>>

\* the updater of addNewSourceInEditor: setSources(prev => ...)
withNewSource(prev, qn, beschr) ==
    IF \E i \in 1..Len(prev) : prev[i].quelle = qn
    THEN prev
    ELSE Append(prev, [quelle |-> qn, beschreibung |-> trim(beschr)])

\* addNewSourceInEditor
addNewSourceInEditor ==
    /\ editorOpen
    /\ LET qn == trim(newQuelle)
       IN  IF qn = <<>>
           THEN UNCHANGED <<sources, formQ, newQuelle, newBeschr>>
           ELSE /\ Len(withNewSource(sources, qn, newBeschr)) <= MaxSources
                /\ sources' = withNewSource(sources, qn, newBeschr)
                /\ formQ' = IF \E k \in 1..Len(formQ) : formQ[k] = qn
                            THEN formQ ELSE Append(formQ, qn)
                /\ newQuelle' = <<>>
                /\ newBeschr' = <<>>
    /\ UNCHANGED <<sourceQ, sourceB, sourcesFrame>>

\* earlier revision, the input q of the Sources form: setQ(e.target.value)
SetSourceQ ==
    /\ \E v \in SourceLabels : sourceQ' = v
    /\ UNCHANGED <<sources, newQuelle, newBeschr, sourceB, formQ, sourcesFrame>>

\* earlier revision, onSubmit of the Sources form with
\* onAdd = (q) => setSources((s) => [...s, q])
SourcesOnAdd ==
    /\ IF trim(sourceQ) = <<>>
       THEN UNCHANGED <<sources, sourceQ, sourceB>>
       ELSE /\ Len(sources) < MaxSources
            /\ sources' = Append(sources, [quelle |-> sourceQ, beschreibung |-> sourceB])
            /\ sourceQ' = <<>>
            /\ sourceB' = <<>>
    /\ UNCHANGED <<newQuelle, newBeschr, formQ, sourcesFrame>>

\* s.filter((_, idx) => idx !== i)
withoutSource(s, i) ==
    LET keep == { k \in 1..Len(s) : k - 1 # i }
    IN  [n \in 1..Cardinality(keep) |->
            s[CHOOSE k \in keep : Cardinality({ j \in keep : j <= k }) = n]]

\* a mutant of SourcesOnRemove: the label removed is also taken out of the
\* entries that refer to it
SourcesOnRemove_Cascade ==
    /\ \E i \in 0..(Len(sources) - 1) :
          /\ sources' = withoutSource(sources, i)
          /\ entries' = [k \in 1..Len(entries) |->
                           [entries[k] EXCEPT !.quellen =
                               SelectSeq(@, LAMBDA l : l # sources[i + 1].quelle)]]
    /\ UNCHANGED <<newQuelle, newBeschr, sourceQ, sourceB, formQ, sourcesRest>>

\* earlier revision, the remove button of row i of the Sources list with
\* onRemove = (i) => setSources((s) => s.filter((_, idx) => idx !== i))
SourcesOnRemove ==
    /\ \E i \in 0..(Len(sources) - 1) : sources' = withoutSource(sources, i)
    /\ UNCHANGED <<newQuelle, newBeschr, sourceQ, sourceB, formQ, sourcesFrame>>

SourcesNext ==
    \/ SetNewQuelle
    \/ addNewSourceInEditor
    \/ SetSourceQ
    \/ SourcesOnAdd
    \/ SourcesOnRemove

SpecSources == SourcesInit /\ [][SourcesNext]_vars

\* the labels of the source collection
Labels(s) == { s[i].quelle : i \in 1..Len(s) }

\* C17: source labels are unique: under any sequence of source additions no
\* two sources of the source collection have the same label.  The Sources
\* form of the earlier revision appends what it is given, so adding
\* "Musterquelle 1" a second time leaves two sources of that label.
C17_UniqueSourceLabels ==
    \A i, j \in 1..Len(sources) : sources[i].quelle = sources[j].quelle => i = j

\* sources is s with the element at one position taken out
OneRemoved(s, t) ==
    \E i \in 1..Len(s) : t = SubSeq(s, 1, i - 1) \o SubSeq(s, i + 1, Len(s))

\* C18: removing a source changes only the source collection: one source is
\* gone and every term entry, its list of source labels included, is as it
\* was, also when it refers to the label removed.
C18_RemoveSourceKeepsEntries ==
    [][ SourcesOnRemove =>
          /\ OneRemoved(sources, sources')
          /\ entries' = entries
          /\ formQ' = formQ ]_vars

\* C18 witness: the only source of the label "Musterquelle 1" is gone and the
\* entry still refers to it
C18_Witness ==
    /\ Musterquelle \notin Labels(sources)
    /\ sources # <<>>
    /\ \E i \in 1..Len(entries) : \E k \in 1..Len(entries[i].quellen) :
          entries[i].quellen[k] = Musterquelle

-----------------------------------------------------------------------------
(* Arrays *)

\* Array.prototype.indexOf: the first index (from 0) of x in s, or -1
indexOf(s, x) ==
    IF \E i \in 1..Len(s) : s[i] = x
    THEN (CHOOSE i \in 1..Len(s) : s[i] = x /\ \A j \in 1..(i - 1) : s[j] # x) - 1
    ELSE -1

\* entries.findIndex(x => x.begriff === begr)
findIndexBegriff(arr, begr) == indexOf([i \in 1..Len(arr) |-> arr[i].begriff], begr)

\* arr.findIndex(x => normalize(x.begriff) === normalize(begr))
findIndexNormalized(arr, begr) ==
    indexOf([i \in 1..Len(arr) |-> normalize(arr[i].begriff)], normalize(begr))

\* what reading a hole of an array gives
undefined == [undefined |-> TRUE]

\* copy[i] = v for a number i: an element is replaced, the array grows (with
\* holes) when i is beyond its end, and a negative i sets a property that is
\* no element of the array
arraySet(copy, i, v) ==
    IF i < 0 THEN copy
    ELSE [k \in 1..Max(Len(copy), i + 1) |->
             IF k = i + 1 THEN v ELSE IF k <= Len(copy) THEN copy[k] ELSE undefined]

\* c[i] ?? ""
cellOr(c, i) == IF i >= 0 /\ i < Len(c) THEN c[i + 1] ELSE <<>>

-----------------------------------------------------------------------------
(* CSV import *)

RECURSIVE splitFrom(_, _, _, _)
\* the pieces of s between the code points of seps, from position i on; cur
\* is the piece being read
splitFrom(s, seps, i, cur) ==
    IF i > Len(s) THEN <<cur>>
    ELSE IF s[i] \in seps THEN <<cur>> \o splitFrom(s, seps, i + 1, <<>>)
    ELSE splitFrom(s, seps, i + 1, Append(cur, s[i]))

\* text.split(/\r?\n/): a CR before the LF belongs to the separator
splitLines(text) ==
    LET pieces == splitFrom(text, {10}, 1, <<>>)
    IN  [k \in 1..Len(pieces) |->
            IF k < Len(pieces) /\ pieces[k] # <<>> /\ pieces[k][Len(pieces[k])] = 13
            THEN SubSeq(pieces[k], 1, Len(pieces[k]) - 1)
            ELSE pieces[k]]

RECURSIVE parseFrom(_, _, _, _, _)
\* the loop of parseLine from position i on
parseFrom(line, i, cur, inQ, cells) ==
    IF i > Len(line) THEN Append(cells, cur)
    ELSE LET ch == line[i]
         IN  IF inQ
             THEN IF ch = 34 /\ i < Len(line) /\ line[i + 1] = 34
                      THEN parseFrom(line, i + 2, Append(cur, 34), TRUE, cells)
                  ELSE IF ch = 34 THEN parseFrom(line, i + 1, cur, FALSE, cells)
                  ELSE parseFrom(line, i + 1, Append(cur, ch), TRUE, cells)
             ELSE IF ch = 34 THEN parseFrom(line, i + 1, cur, TRUE, cells)
                  ELSE IF ch = 44 THEN parseFrom(line, i + 1, <<>>, FALSE, Append(cells, cur))
                  ELSE parseFrom(line, i + 1, Append(cur, ch), FALSE, cells)

\* parseLine(line): the cells of one CSV line
parseLine(line) == parseFrom(line, 1, <<>>, FALSE, <<>>)

\* s.split(/[;|,]/).map(s => s.trim()).filter(Boolean)
splitQuellen(s) ==
    LET parts == splitFrom(s, {59, 124, 44}, 1, <<>>)
    IN  SelectSeq([k \in 1..Len(parts) |-> trim(parts[k])], LAMBDA x : x # <<>>)

\* "begriff", "definition", "beispiel", "quellen"
ColBegriff == <<98, 101, 103, 114, 105, 102, 102>>
ColDefinition == <<100, 101, 102, 105, 110, 105, 116, 105, 111, 110>>
ColBeispiel == <<98, 101, 105, 115, 112, 105, 101, 108>>
ColQuellen == <<113, 117, 101, 108, 108, 101, 110>>

\* the rows of the file as entries: const parsed = lines.slice(1).filter(...).map(...)
parsedRows(lines, idxB, idxD, idxX, idxQ) ==
    LET rows == SelectSeq(Tail(lines), LAMBDA l : trim(l) # <<>>)
    IN  [k \in 1..Len(rows) |->
            LET c == parseLine(rows[k])
            IN  [begriff |-> cellOr(c, idxB),
                 definition |-> IF idxD # -1 THEN cellOr(c, idxD) ELSE <<>>,
                 beispiel |-> IF idxX # -1 THEN cellOr(c, idxX) ELSE <<>>,
                 quellen |-> splitQuellen(IF idxQ # -1 THEN cellOr(c, idxQ) ELSE <<>>)]]

\* a mutant of upsert: a row is always appended
upsert_Push(merged, p) == IF trim(p.begriff) = <<>> THEN merged ELSE Append(merged, p)

\* one step of parsed.forEach: a row with a blank term is skipped, else it
\* replaces the first entry of the same normalized term or is pushed
upsert(merged, p) ==
    IF trim(p.begriff) = <<>> THEN merged
    ELSE LET i == findIndexNormalized(merged, p.begriff)
         IN  IF i >= 0 THEN arraySet(merged, i, p) ELSE Append(merged, p)

RECURSIVE mergeRows(_, _)
\* parsed.forEach over merged
mergeRows(merged, parsed) ==
    IF parsed = <<>> THEN merged ELSE mergeRows(upsert(merged, Head(parsed)), Tail(parsed))

\* a mutant of parsedFile: without a column "begriff" the first column is
\* taken for the terms
parsedFile_FirstColumn(text) ==
    LET lines == splitLines(text)
        header == parseLine(lines[1])
        cols == [k \in 1..Len(header) |-> toLowerCase(trim(header[k]))]
        idxB == Max(indexOf(cols, ColBegriff), 0)
        idxD == indexOf(cols, ColDefinition)
        idxX == indexOf(cols, ColBeispiel)
        idxQ == indexOf(cols, ColQuellen)
    IN  [idxB |-> idxB, parsed |-> parsedRows(lines, idxB, idxD, idxX, idxQ)]

\* importCSVFromFile from the header to parsed: the index of the column
\* "begriff" and, when there is one, the rows as entries
parsedFile(text) ==
    LET lines == splitLines(text)
        header == parseLine(lines[1])
        cols == [k \in 1..Len(header) |-> toLowerCase(trim(header[k]))]
        idxB == indexOf(cols, ColBegriff)
        idxD == indexOf(cols, ColDefinition)
        idxX == indexOf(cols, ColBeispiel)
        idxQ == indexOf(cols, ColQuellen)
    IN  [idxB |-> idxB,
         parsed |-> IF idxB = -1 THEN <<>> ELSE parsedRows(lines, idxB, idxD, idxX, idxQ)]

\* importCSVFromFile after await file.text(): the new value of entries
importedEntries(prev, text) ==
    LET file == parsedFile(text)
    IN  IF file.idxB = -1 THEN prev ELSE mergeRows(prev, file.parsed)

-----------------------------------------------------------------------------
(* CSV export *)

\* /[,"\n]/.test(s)
needsQuotes(s) == \E i \in 1..Len(s) : s[i] \in {44, 34, 10}

\* s.replace(/"/g, '""')
doubleQuotes(s) == Concat([i \in 1..Len(s) |-> IF s[i] = 34 THEN <<34, 34>> ELSE <<s[i]>>])

\* csvEscape(val) for a string val
csvEscape(val) == IF needsQuotes(val) THEN <<34>> \o doubleQuotes(val) \o <<34>> ELSE val

\* Array.prototype.join(sep)
join(parts, sep) ==
    Concat([i \in 1..Len(parts) |-> IF i = 1 THEN parts[i] ELSE sep \o parts[i]])

\* ["Begriff", "Definition", "Beispiel", "Quellen"]
ExportColumns ==
    << <<66, 101, 103, 114, 105, 102, 102>>,
       <<68, 101, 102, 105, 110, 105, 116, 105, 111, 110>>,
       <<66, 101, 105, 115, 112, 105, 101, 108>>,
       <<81, 117, 101, 108, 108, 101, 110>> >>

\* exportCSV: the text handed to downloadBlob for the entries ents
exportCSV(ents) ==
    LET header == join(ExportColumns, <<44>>)
        rows == [k \in 1..Len(ents) |->
                    join(<<csvEscape(ents[k].begriff), csvEscape(ents[k].definition),
                           csvEscape(ents[k].beispiel),
                           csvEscape(join(ents[k].quellen, <<59, 32>>))>>, <<44>>)]
    IN  join(<<header>> \o rows, <<10>>)

-----------------------------------------------------------------------------
(* Spec: the term collection of App.tsx under the editor, the detail modal  *)
(* and the CSV import.                                                     *)

\* const defaultEntries
defaultEntries ==
    << [begriff |-> <<65, 108, 103, 111, 114, 105, 116, 104, 109, 117, 115>>,
        definition |-> <<83, 99, 104, 114, 105, 116, 116, 119, 101, 105, 115, 101, 32, 65, 110,
                         108, 101, 105, 116, 117, 110, 103, 32, 122, 117, 114, 32, 76, 195, 182,
                         115, 117, 110, 103, 32, 101, 105, 110, 101, 115, 32, 80, 114, 111, 98,
                         108, 101, 109, 115, 46>>,
        beispiel |-> <<69, 105, 110, 32, 83, 111, 114, 116, 105, 101, 114, 97, 108, 103, 111,
                       114, 105, 116, 104, 109, 117, 115, 32, 111, 114, 100, 110, 101, 116, 32,
                       68, 97, 116, 101, 110, 46>>,
        quellen |-> <<>>],
       [begriff |-> <<68, 97, 116, 101, 110, 98, 97, 110, 107>>,
        definition |-> <<83, 121, 115, 116, 101, 109, 32, 122, 117, 114, 32, 83, 112, 101, 105,
                         99, 104, 101, 114, 117, 110, 103, 32, 117, 110, 100, 32, 86, 101, 114,
                         119, 97, 108, 116, 117, 110, 103, 32, 118, 111, 110, 32, 68, 97, 116,
                         101, 110, 46>>,
        beispiel |-> <<77, 121, 83, 81, 76, 32, 105, 115, 116, 32, 101, 105, 110, 101, 32, 114,
                       101, 108, 97, 116, 105, 111, 110, 97, 108, 101, 32, 68, 97, 116, 101, 110,
                       98, 97, 110, 107, 46>>,
        quellen |-> <<>>] >>

\* what the user types as term: " ", "ALGORITHMUS", "Bit "
FormTerms == { <<32>>, <<65, 76, 71, 79, 82, 73, 84, 72, 77, 85, 83>>, <<66, 105, 116, 32>> }

\* what the user types as definition: "neu"
FormDefs == { <<110, 101, 117>> }

\* the files the user imports:
\*   Begriff,Definition / algorithmus,csv / (blank line) / Bit,"a,b" / ,csv
\*   Name,Definition / Bit,csv
\*   " BEGRIFF " / Datenbank
CsvFiles ==
    { <<66, 101, 103, 114, 105, 102, 102, 44, 68, 101, 102, 105, 110, 105, 116, 105, 111, 110, 13, 10,
        97, 108, 103, 111, 114, 105, 116, 104, 109, 117, 115, 44, 99, 115, 118, 10,
        32, 10,
        66, 105, 116, 44, 34, 97, 44, 98, 34, 10,
        44, 99, 115, 118>>,
      <<78, 97, 109, 101, 44, 68, 101, 102, 105, 110, 105, 116, 105, 111, 110, 10,
        66, 105, 116, 44, 99, 115, 118>>,
      <<32, 66, 69, 71, 82, 73, 70, 70, 32, 10,
        68, 97, 116, 101, 110, 98, 97, 110, 107>> }

Init ==
    /\ entries = defaultEntries
    /\ query = <<>>
    /\ fuzzy = TRUE
    /\ fuzzyTol = 2
    /\ sortAsc = TRUE
    /\ detailOpen = FALSE
    /\ selected = <<>>
    /\ editorOpen = FALSE
    /\ editorMode = "create"
    /\ editorIndex = <<>>
    /\ formBegriff = <<>>
    /\ formDef = <<>>
    /\ formBsp = <<>>
    /\ formQ = <<>>
    /\ modalOpen = FALSE
    /\ importFile = <<>>
    /\ steps = 0
    /\ ExtraIdle
    /\ UtilIdle

searchVars == <<query, fuzzy, fuzzyTol, sortAsc>>
detailVars == <<detailOpen, selected>>
editorVars == <<editorOpen, editorMode, editorIndex>>
formVars == <<formBegriff, formDef, formBsp, formQ>>
openFrame == <<view, sources, sourceQ, sourceB, bootVars, cloudVars>>

\* one more action of a behaviour of Spec
Tick == steps < MaxSteps /\ steps' = steps + 1

\* a modal covers the page: the buttons of the page are used while none is open
pageShown == ~detailOpen /\ ~editorOpen

\* the rows of the result list
rows == { results[k] : k \in 1..Len(results) }

\* a row's main button: setSelected(e); setDetailOpen(true)
OpenDetail ==
    /\ Tick
    /\ pageShown
    /\ \E e \in rows : selected' = <<e>>
    /\ detailOpen' = TRUE
    /\ UNCHANGED <<entries, searchVars, editorVars, formVars, modalOpen, importFile, extraVars, utilVars>>

\* the detail modal's X and "Schliessen" buttons: setDetailOpen(false)
CloseDetail ==
    /\ Tick
    /\ detailOpen
    /\ detailOpen' = FALSE
    /\ UNCHANGED <<entries, searchVars, selected, editorVars, formVars, modalOpen, importFile, extraVars, utilVars>>

\* openEditorCreate
openEditorCreate ==
    /\ Tick
    /\ pageShown
    /\ editorMode' = "create"
    /\ editorIndex' = <<>>
    /\ formBegriff' = <<>>
    /\ formDef' = <<>>
    /\ formBsp' = <<>>
    /\ formQ' = <<>>
    /\ newQuelle' = <<>>
    /\ newBeschr' = <<>>
    /\ editorOpen' = TRUE
    /\ UNCHANGED <<entries, searchVars, detailVars, modalOpen, importFile, openFrame, utilVars>>

\* openEditorEdit(entry, index)
openEditorEdit(entry, index) ==
    /\ editorMode' = "edit"
    /\ editorIndex' = <<index>>
    /\ formBegriff' = entry.begriff
    /\ formDef' = entry.definition
    /\ formBsp' = entry.beispiel
    /\ formQ' = entry.quellen
    /\ newQuelle' = <<>>
    /\ newBeschr' = <<>>
    /\ editorOpen' = TRUE

\* a row's pencil button: openEditorEdit(e, idx) with idx = entries.findIndex(x => x.begriff === e.begriff)
EditRow ==
    /\ Tick
    /\ pageShown
    /\ \E e \in rows : openEditorEdit(e, findIndexBegriff(entries, e.begriff))
    /\ UNCHANGED <<entries, searchVars, detailVars, modalOpen, importFile, openFrame, utilVars>>

\* the detail modal's "Bearbeiten" button
EditSelected ==
    /\ Tick
    /\ detailOpen /\ selected # <<>>
    /\ openEditorEdit(selected[1], findIndexBegriff(entries, selected[1].begriff))
    /\ detailOpen' = FALSE
    /\ UNCHANGED <<entries, searchVars, selected, modalOpen, importFile, openFrame, utilVars>>

\* the editor's inputs: setFormBegriff(e.target.value), setFormDef(e.target.value)
SetFormBegriff ==
    /\ Tick
    /\ editorOpen
    /\ \E v \in FormTerms : formBegriff' = v
    /\ UNCHANGED <<entries, searchVars, detailVars, editorVars, formDef, formBsp, formQ,
                   modalOpen, importFile, extraVars, utilVars>>

SetFormDef ==
    /\ Tick
    /\ editorOpen
    /\ \E v \in FormDefs : formDef' = v
    /\ UNCHANGED <<entries, searchVars, detailVars, editorVars, formBegriff, formBsp, formQ,
                   modalOpen, importFile, extraVars, utilVars>>

\* the editor's X and "Abbrechen" buttons: setEditorOpen(false)
CloseEditor ==
    /\ Tick
    /\ editorOpen
    /\ editorOpen' = FALSE
    /\ UNCHANGED <<entries, searchVars, detailVars, editorMode, editorIndex, formVars,
                   modalOpen, importFile, extraVars, utilVars>>

\* a mutant of trimmedForm: the term is taken as typed
trimmedForm_TermAsTyped ==
    [begriff |-> formBegriff, definition |-> trim(formDef),
     beispiel |-> trim(formBsp), quellen |-> formQ]

\* the record saveEditor builds from the form
trimmedForm ==
    [begriff |-> trim(formBegriff), definition |-> trim(formDef),
     beispiel |-> trim(formBsp), quellen |-> formQ]

\* a mutant of savedEntries: edit mode also goes by the normalized term
savedEntries_UpsertOnly(prev, trimmed) == upsert(prev, trimmed)

\* the updater of saveEditor: setEntries(prev => ...)
savedEntries(prev, trimmed) ==
    IF editorMode = "edit" /\ editorIndex # <<>>
    THEN arraySet(prev, editorIndex[1], trimmed)
    ELSE LET i == findIndexNormalized(prev, trimmed.begriff)
         IN  IF i >= 0 THEN arraySet(prev, i, trimmed) ELSE Append(prev, trimmed)

\* saveEditor
saveEditor ==
    /\ Tick
    /\ editorOpen
    /\ IF trimmedForm.begriff = <<>>
       THEN UNCHANGED <<entries, editorOpen>>
       ELSE /\ entries' = savedEntries(entries, trimmedForm)
            /\ editorOpen' = FALSE
    /\ UNCHANGED <<searchVars, detailVars, editorMode, editorIndex, formVars,
                   modalOpen, importFile, extraVars, utilVars>>

\* the detail modal's "Loeschen" button, confirmed or not
DeleteSelected ==
    /\ Tick
    /\ detailOpen /\ selected # <<>>
    /\ \E confirmed \in BOOLEAN :
          IF confirmed
          THEN /\ entries' = SelectSeq(entries, LAMBDA e : e.begriff # selected[1].begriff)
               /\ detailOpen' = FALSE
          ELSE UNCHANGED <<entries, detailOpen>>
    /\ UNCHANGED <<searchVars, selected, editorVars, formVars, modalOpen, importFile, extraVars, utilVars>>

\* the file input's onChange: importCSVFromFile(f) up to await file.text();
\* one file is read at a time
ChooseCsvFile ==
    /\ Tick
    /\ pageShown
    /\ importFile = <<>>
    /\ \E f \in CsvFiles : importFile' = <<f>>
    /\ UNCHANGED <<entries, searchVars, detailVars, editorVars, formVars, modalOpen, extraVars, utilVars>>

\* importCSVFromFile once the text is there
importCSVFromFile ==
    /\ Tick
    /\ importFile # <<>>
    /\ entries' = importedEntries(entries, importFile[1])
    /\ importFile' = <<>>
    /\ UNCHANGED <<searchVars, detailVars, editorVars, formVars, modalOpen, extraVars, utilVars>>

Next ==
    \/ OpenDetail
    \/ CloseDetail
    \/ openEditorCreate
    \/ EditRow
    \/ EditSelected
    \/ SetFormBegriff
    \/ SetFormDef
    \/ CloseEditor
    \/ saveEditor
    \/ DeleteSelected
    \/ ChooseCsvFile
    \/ importCSVFromFile

Spec == Init /\ [][Next]_vars

-----------------------------------------------------------------------------
(* SpecBoot: the start of the App component with what local storage holds  *)
(* for the term collection and the sources: the boot/migration effect, the *)
(* effect that loads the sources, the two effects that save, and handlers  *)
(* that change entries and sources afterwards.  The texts of local storage *)
(* are kept by what JSON.parse makes of them; setItem is taken to succeed.  *)

\* the empty string
EmptyText == [kind |-> "empty", value |-> <<>>]

\* a text that JSON.parse rejects
CorruptText == [kind |-> "corrupt", value |-> <<>>]

\* JSON.stringify(v): the text that JSON.parse turns into v
JsonText(v) == [kind |-> "json", value |-> v]

\* the collections stored under "glossar_entries_v3": none, the entry "ab"
V3Collections == { <<>>, <<TermOnly(<<97, 98>>)>> }

\* the collections stored under "glossar_entries_v2": the entry "cab"
V2Collections == { <<TermOnly(<<99, 97, 98>>)>> }

\* what local storage may hold under a key: nothing, "", a corrupt text, a collection
StoredTexts(collections) ==
    { <<>>, <<EmptyText>>, <<CorruptText>> } \cup { <<JsonText(c)>> : c \in collections }

\* localStorage.getItem(key) is truthy: there is an item and it is not ""
truthy(item) == item # <<>> /\ item[1].kind # "empty"

\* the effect that saves entries, in the closure of a render
saveEntriesEffect(ents, done) == [fx |-> "saveEntries", entries |-> ents, bootDone |-> done]

\* the boot/migration effect
bootEffect == [fx |-> "boot", entries |-> <<>>, bootDone |-> FALSE]

\* the effect that loads the sources
loadSourcesEffect == [fx |-> "loadSources"]

\* the effect that saves the sources, in the closure of a render
saveSourcesEffect(srcs) == [fx |-> "saveSources", sources |-> srcs]

\* a mutant of deps: the effect that saves entries depends on [bootDone] only
deps_BootDoneOnly == [entries |-> <<>>, bootDone |-> bootDone]

\* the values the effect that saves entries depends on: [entries, bootDone]
deps == [entries |-> entries, bootDone |-> bootDone]

\* the values the effect that saves the sources depends on: [sources]
sourcesDeps == [sources |-> sources]

\* the collections stored under "glossar_sources_v1": the source "Q"
StoredSources == { <<[quelle |-> <<81>>, beschreibung |-> <<>>]>> }

\* the first render is done with the initial state, its effects are still to run
BootInit ==
    /\ entries = defaultEntries
    /\ query = <<>>
    /\ fuzzy = TRUE
    /\ fuzzyTol = 2
    /\ sortAsc = TRUE
    /\ detailOpen = FALSE
    /\ selected = <<>>
    /\ editorOpen = FALSE
    /\ editorMode = "create"
    /\ editorIndex = <<>>
    /\ formBegriff = <<>>
    /\ formDef = <<>>
    /\ formBsp = <<>>
    /\ formQ = <<>>
    /\ modalOpen = FALSE
    /\ importFile = <<>>
    /\ steps = 0
    /\ view = <<>>
    /\ sources = defaultSources
    /\ newQuelle = <<>>
    /\ newBeschr = <<>>
    /\ sourceQ = <<>>
    /\ sourceB = <<>>
    /\ bootDone = FALSE
    /\ lsEntries \in StoredTexts(V3Collections)
    /\ lsEntriesV2 \in StoredTexts(V2Collections)
    /\ lsSources \in StoredTexts(StoredSources)
    /\ effects = <<bootEffect, loadSourcesEffect,
                   saveEntriesEffect(defaultEntries, FALSE), saveSourcesEffect(defaultSources)>>
    /\ committed = <<deps, sourcesDeps>>
    /\ CloudIdle
    /\ UtilIdle

bootFrame == <<query, fuzzy, fuzzyTol, sortAsc, detailOpen, selected, editorOpen, editorMode,
               editorIndex, formBegriff, formDef, formBsp, formQ, modalOpen, importFile,
               steps, view, newQuelle, newBeschr, sourceQ, sourceB, cloudVars, utilVars>>

\* a mutant of booted: v2 is taken over without being copied to v3
booted_NoCopy(v3, v2, ents) ==
    IF truthy(v3)
    THEN [entries |-> IF v3[1].kind = "json" THEN v3[1].value ELSE ents, lsEntries |-> v3]
    ELSE IF truthy(v2)
         THEN [entries |-> IF v2[1].kind = "json" THEN v2[1].value ELSE ents, lsEntries |-> v3]
         ELSE [entries |-> ents, lsEntries |-> v3]

\* the body of the boot/migration effect from the items v3 and v2: the
\* entries it sets and the item it leaves under "glossar_entries_v3".  A
\* text that JSON.parse rejects ends the try block where it is parsed, after
\* v2 has been copied.
booted(v3, v2, ents) ==
    IF truthy(v3)
    THEN [entries |-> IF v3[1].kind = "json" THEN v3[1].value ELSE ents, lsEntries |-> v3]
    ELSE IF truthy(v2)
         THEN [entries |-> IF v2[1].kind = "json" THEN v2[1].value ELSE ents, lsEntries |-> v2]
         ELSE [entries |-> ents, lsEntries |-> v3]

\* the boot/migration effect runs
BootEffect ==
    /\ effects # <<>> /\ Head(effects).fx = "boot"
    /\ entries' = booted(lsEntries, lsEntriesV2, entries).entries
    /\ lsEntries' = booted(lsEntries, lsEntriesV2, entries).lsEntries
    /\ bootDone' = TRUE
    /\ effects' = Tail(effects)
    /\ UNCHANGED <<sources, lsEntriesV2, lsSources, committed, bootFrame>>

\* the body of the effect that loads the sources from the item s: the
\* sources it sets
loadedSources(s, srcs) ==
    IF truthy(s) /\ s[1].kind = "json" THEN s[1].value ELSE srcs

\* the effect that loads the sources runs
LoadSourcesEffect ==
    /\ effects # <<>> /\ Head(effects).fx = "loadSources"
    /\ sources' = loadedSources(lsSources, sources)
    /\ effects' = Tail(effects)
    /\ UNCHANGED <<entries, bootDone, lsEntries, lsEntriesV2, lsSources, committed, bootFrame>>

\* a mutant of savedItem: the effect saves whatever bootDone is
savedItem_NoGuard(fx, v3) == <<JsonText(fx.entries)>>

\* the body of the effect that saves entries: the item it leaves under
\* "glossar_entries_v3"
savedItem(fx, v3) == IF ~fx.bootDone THEN v3 ELSE <<JsonText(fx.entries)>>

\* the effect that saves entries runs
SaveEntriesEffect ==
    /\ effects # <<>> /\ Head(effects).fx = "saveEntries"
    /\ lsEntries' = savedItem(Head(effects), lsEntries)
    /\ effects' = Tail(effects)
    /\ UNCHANGED <<entries, sources, bootDone, lsEntriesV2, lsSources, committed, bootFrame>>

\* the effect that saves the sources runs
SaveSourcesEffect ==
    /\ effects # <<>> /\ Head(effects).fx = "saveSources"
    /\ lsSources' = <<JsonText(Head(effects).sources)>>
    /\ effects' = Tail(effects)
    /\ UNCHANGED <<entries, sources, bootDone, lsEntries, lsEntriesV2, committed, bootFrame>>

\* the render after the effects or a handler changed entries, bootDone or
\* sources: the effects whose dependencies changed are to run again
Commit ==
    /\ effects = <<>>
    /\ committed # <<deps, sourcesDeps>>
    /\ effects' = (IF committed[1] # deps
                   THEN <<saveEntriesEffect(entries, bootDone)>> ELSE <<>>)
                  \o (IF committed[2] # sourcesDeps
                      THEN <<saveSourcesEffect(sources)>> ELSE <<>>)
    /\ committed' = <<deps, sourcesDeps>>
    /\ UNCHANGED <<entries, sources, bootDone, lsEntries, lsEntriesV2, lsSources, bootFrame>>

\* the page is rendered and its effects have run: handlers can be called
settled == effects = <<>> /\ committed = <<deps, sourcesDeps>>

\* a row's main button, once the page has settled
SettledOpenDetail == settled /\ OpenDetail

\* the detail modal's delete button, once the page has settled
SettledDeleteSelected == settled /\ DeleteSelected

\* the button "Neuer Begriff", once the page has settled
SettledOpenEditorCreate == settled /\ openEditorCreate

\* the editor's input for a new source, once the page has settled
SettledSetNewQuelle == settled /\ SetNewQuelle

\* the editor's button that adds the new source, once the page has settled
SettledAddNewSource == settled /\ addNewSourceInEditor

BootNext ==
    \/ BootEffect
    \/ LoadSourcesEffect
    \/ SaveEntriesEffect
    \/ SaveSourcesEffect
    \/ Commit
    \/ SettledOpenDetail
    \/ SettledDeleteSelected
    \/ SettledOpenEditorCreate
    \/ SettledSetNewQuelle
    \/ SettledAddNewSource

SpecBoot == BootInit /\ [][BootNext]_vars

\* React runs the effects of a commit and renders again after a state change
SpecBootFair ==
    /\ SpecBoot
    /\ WF_vars(BootEffect)
    /\ WF_vars(LoadSourcesEffect)
    /\ WF_vars(SaveEntriesEffect)
    /\ WF_vars(SaveSourcesEffect)
    /\ WF_vars(Commit)

\* C19: entries are written to "glossar_entries_v3" only after boot/migration:
\* if a collection is stored there at the start, then after boot the entries
\* in memory are that collection (until the user changes them), and the item
\* never holds the default entries.
C19_StoredCollectionKept ==
    \A c \in V3Collections :
        lsEntries = <<JsonText(c)>> =>
            [](/\ (bootDone /\ steps = 0) => entries = c
               /\ lsEntries # <<JsonText(defaultEntries)>>)

\* C19 witness: the stored collection "ab" was loaded and saved again, with
\* nothing under "glossar_entries_v2"
C19_Witness ==
    /\ settled
    /\ bootDone
    /\ steps = 0
    /\ lsEntriesV2 = <<>>
    /\ entries = <<TermOnly(<<97, 98>>)>>
    /\ lsEntries = <<JsonText(entries)>>

-----------------------------------------------------------------------------
(* SpecCloud: the button "Cloud laden" next to the detail modal and the     *)
(* editor.  The button's handler awaits oneDriveLoadOrInit, which awaits    *)
(* the token, the read request and, when the read did not answer 200, the   *)
(* requests that create the folder and the empty file; rows, detail modal   *)
(* and editor are used while a load is pending.  What the service answers   *)
(* is not the program's choice.                                            *)

\* data.glossar || []: a field of the parsed file, <<>> when the file has no
\* such field and <<array>> when it has
orEmpty(field) == IF field = <<>> THEN <<>> ELSE field[1]

\* const empty = { glossar: [], quellen: [] }
empty == [glossar |-> << <<>> >>, quellen |-> << <<>> >>]

\* what the glossary file in the cloud may hold: one entry "Bit" and one
\* source "Q"; the entries "Bit", "ab", "cab" and no field quellen
CloudContents ==
    { [glossar |-> << <<TermOnly(<<66, 105, 116>>)>> >>,
       quellen |-> << <<[quelle |-> <<81>>, beschreibung |-> <<>>]>> >>],
      [glossar |-> << <<TermOnly(<<66, 105, 116>>), TermOnly(<<97, 98>>),
                        TermOnly(<<99, 97, 98>>)>> >>,
       quellen |-> <<>>] }

\* the status of the answer to the read request: 200 needs the file; the
\* service answers 404 without it and 503 when it is not available
ReadStatuses(file) == IF file = <<>> THEN {404, 503} ELSE {200, 503}

CloudInit ==
    /\ entries = defaultEntries
    /\ query = <<>>
    /\ fuzzy = TRUE
    /\ fuzzyTol = 2
    /\ sortAsc = TRUE
    /\ detailOpen = FALSE
    /\ selected = <<>>
    /\ editorOpen = FALSE
    /\ editorMode = "create"
    /\ editorIndex = <<>>
    /\ formBegriff = <<>>
    /\ formDef = <<>>
    /\ formBsp = <<>>
    /\ formQ = <<>>
    /\ modalOpen = FALSE
    /\ importFile = <<>>
    /\ steps = 0
    /\ view = <<>>
    /\ SourcesIdle
    /\ BootIdle
    /\ cloudFile \in { <<>> } \cup { <<c>> : c \in CloudContents }
    /\ cloudLoad = <<>>
    /\ cloudAlert = <<>>
    /\ UtilIdle

cloudFrame == <<query, fuzzy, fuzzyTol, sortAsc, detailOpen, selected, editorOpen, editorMode,
                editorIndex, formBegriff, formDef, formBsp, formQ, modalOpen, importFile,
                view, newQuelle, newBeschr, sourceQ, sourceB, bootVars, utilVars>>

\* the button "Cloud laden": the handler up to await getGraphToken(); one
\* load is pending at a time
CloudLoadClick ==
    /\ Tick
    /\ pageShown
    /\ cloudLoad = <<>>
    /\ cloudLoad' = <<"token">>
    /\ cloudAlert' = <<>>
    /\ UNCHANGED <<entries, sources, cloudFile, cloudFrame>>

\* a mutant of loadFailed: the collections are cleared when the load fails
loadFailed_Cleared ==
    /\ cloudLoad' = <<>>
    /\ cloudAlert' = <<"failed">>
    /\ entries' = <<>>
    /\ sources' = <<>>

\* oneDriveLoadOrInit has thrown: the catch block of the handler
loadFailed ==
    /\ cloudLoad' = <<>>
    /\ cloudAlert' = <<"failed">>
    /\ UNCHANGED <<entries, sources>>

\* oneDriveLoadOrInit has returned data: the rest of the try block
loaded(data) ==
    /\ entries' = orEmpty(data.glossar)
    /\ sources' = orEmpty(data.quellen)
    /\ cloudLoad' = <<>>
    /\ cloudAlert' = <<"loaded">>

\* await getGraphToken() returns a token or throws
getGraphToken ==
    /\ Tick
    /\ cloudLoad = <<"token">>
    /\ \/ cloudLoad' = <<"read">> /\ UNCHANGED <<entries, sources, cloudAlert>>
       \/ loadFailed
    /\ UNCHANGED <<cloudFile, cloudFrame>>

\* the read request of oneDriveLoadOrInit: fetch throws, or answers 200 and
\* the parsed file is returned, or answers another status
readCloudFile ==
    /\ Tick
    /\ cloudLoad = <<"read">>
    /\ \/ loadFailed
       \/ \E status \in ReadStatuses(cloudFile) :
             IF status = 200
             THEN loaded(cloudFile[1])
             ELSE cloudLoad' = <<"init">> /\ UNCHANGED <<entries, sources, cloudAlert>>
    /\ UNCHANGED <<cloudFile, cloudFrame>>

\* the rest of oneDriveLoadOrInit after a read that did not answer 200: the
\* folder is created and the empty glossary is put; a fetch throws, or the
\* put is not ok, or it is ok and the file holds the empty glossary
initCloudFile ==
    /\ Tick
    /\ cloudLoad = <<"init">>
    /\ \E putOk \in BOOLEAN :
          IF putOk
          THEN cloudFile' = <<empty>> /\ loaded(empty)
          ELSE cloudFile' = cloudFile /\ loadFailed
    /\ UNCHANGED cloudFrame

\* the page renders: reading the term of an element that is undefined throws
mounted == \A i \in 1..Len(entries) : entries[i] # undefined

\* the handlers of rows, detail modal and editor on a page that renders
CloudOpenDetail == mounted /\ OpenDetail
CloudEditRow == mounted /\ EditRow
CloudEditSelected == mounted /\ EditSelected
CloudSetFormDef == mounted /\ SetFormDef
CloudSaveEditor == mounted /\ saveEditor

CloudNext ==
    \/ CloudLoadClick
    \/ getGraphToken
    \/ readCloudFile
    \/ initCloudFile
    \/ CloudOpenDetail
    \/ CloudEditRow
    \/ CloudEditSelected
    \/ CloudSetFormDef
    \/ CloudSaveEditor

SpecCloud == CloudInit /\ [][CloudNext]_vars

-----------------------------------------------------------------------------
(* SpecCsv: the CSV export of a collection followed by the import of the    *)
(* exported file into that collection.                                      *)

\* the terms of the collections: "ab", "Bit"
CsvTerms == { <<97, 98>>, <<66, 105, 116>> }

\* their definitions: "", "a,b", a"b, a (line feed) b
CsvFields == { <<>>, <<97, 44, 98>>, <<97, 34, 98>>, <<97, 10, 98>> }

\* their lists of source labels: none, "Q", "Q" and "R", "a;b"
CsvLabelLists == { <<>>, << <<81>> >>, << <<81>>, <<82>> >>, << <<97, 59, 98>> >> }

CsvEntries ==
    { [begriff |-> t, definition |-> d, beispiel |-> <<>>, quellen |-> q] :
        t \in CsvTerms, d \in CsvFields, q \in CsvLabelLists }

\* the collections: up to MaxCsvEntries entries of different terms
CsvCollections ==
    { c \in SeqsUpTo(CsvEntries, MaxCsvEntries) :
        \A i, j \in 1..Len(c) : c[i].begriff = c[j].begriff => i = j }

CsvInit ==
    /\ entries \in CsvCollections
    /\ query = <<>>
    /\ fuzzy = TRUE
    /\ fuzzyTol = 2
    /\ sortAsc = TRUE
    /\ detailOpen = FALSE
    /\ selected = <<>>
    /\ editorOpen = FALSE
    /\ editorMode = "create"
    /\ editorIndex = <<>>
    /\ formBegriff = <<>>
    /\ formDef = <<>>
    /\ formBsp = <<>>
    /\ formQ = <<>>
    /\ modalOpen = FALSE
    /\ importFile = <<>>
    /\ steps = 0
    /\ ExtraIdle
    /\ UtilIdle

\* the button "Export CSV", and the file input's onChange with the file
\* that was downloaded: importCSVFromFile(f) up to await file.text()
ChooseExportedFile ==
    /\ Tick
    /\ pageShown
    /\ importFile = <<>>
    /\ importFile' = <<exportCSV(entries)>>
    /\ UNCHANGED <<entries, searchVars, detailVars, editorVars, formVars, modalOpen, extraVars, utilVars>>

CsvNext ==
    \/ ChooseExportedFile
    \/ importCSVFromFile

SpecCsv == CsvInit /\ [][CsvNext]_vars

-----------------------------------------------------------------------------
(* Claims about the term collection *)

\* C1: in every state reached from the default entries by editor saves (create
\* and edit mode), CSV imports and deletions, no two entries of the term
\* collection have the same normalized term.  saveEditor in edit mode writes
\* the record at editorIndex without looking for another entry of that term,
\* so renaming "Datenbank" to "ALGORITHMUS" leaves two entries of one term.
C1_UniqueNormalizedTerms ==
    \A i, j \in 1..Len(entries) :
        normalize(entries[i].begriff) = normalize(entries[j].begriff) => i = j

\* the positions of arr whose normalized term is that of p
SameTermAt(arr, p) == { i \in 1..Len(arr) : normalize(arr[i].begriff) = normalize(p.begriff) }

\* what an upsert of p into arr may leave: p in the place of an entry of the
\* same normalized term, or p appended when there is none
UpsertResults(arr, p) ==
    IF SameTermAt(arr, p) # {}
    THEN { [arr EXCEPT ![i] = p] : i \in SameTermAt(arr, p) }
    ELSE { Append(arr, p) }

RECURSIVE ImportResults(_, _)
\* what upserting the rows ps, one after the other, may leave
ImportResults(arr, ps) ==
    IF ps = <<>> THEN {arr}
    ELSE UNION { ImportResults(mid, Tail(ps)) : mid \in UpsertResults(arr, Head(ps)) }

\* a step of saveEditor in create mode that saves (the term is not blank)
SaveCreateStep == saveEditor /\ editorMode = "create" /\ trimmedForm.begriff # <<>>

\* a step of importCSVFromFile that imports (the file has the column "begriff")
ImportStep == importCSVFromFile /\ parsedFile(importFile[1]).idxB # -1

\* the rows of the file being imported that have a term
TermRows == SelectSeq(parsedFile(importFile[1]).parsed, LAMBDA p : trim(p.begriff) # <<>>)

\* C14: upsert is keyed on the normalized term and the last write replaces:
\* a create-mode save, and each imported CSV row, whose term has the
\* normalized form of an existing entry replaces that entry at its position and
\* leaves the number of entries unchanged; one whose normalized term matches
\* no entry appends exactly one entry.  (Terms that are not blank: a blank
\* term is not saved at all.)
C14_UpsertByNormalizedTerm ==
    [][ /\ SaveCreateStep => entries' \in UpsertResults(entries, trimmedForm)
        /\ ImportStep => entries' \in ImportResults(entries, TermRows) ]_vars

\* C14 witness: a CSV import has replaced "Algorithmus" at the first position
\* and appended "Bit", then a create-mode save of "ALGORITHMUS" (empty
\* definition) has replaced the first entry again
C14_Witness ==
    /\ Len(entries) = 3
    /\ entries[1].begriff = <<65, 76, 71, 79, 82, 73, 84, 72, 77, 85, 83>>
    /\ entries[1].definition = <<>>
    /\ entries[2] = defaultEntries[2]
    /\ entries[3].begriff = <<66, 105, 116>>
    /\ entries[3].definition = <<97, 44, 98>>
    /\ editorMode = "create" /\ ~editorOpen

\* a step of the delete button that was confirmed
DeleteStep == DeleteSelected /\ ~detailOpen'

\* C15: deletion is by normalized term: a confirmed deletion removes every
\* entry whose normalized term is that of the selected entry and no other
\* entry.  The handler compares the terms as spelled, so an entry of the same
\* normalized term and another spelling stays.
C15_DeleteByNormalizedTerm ==
    [][ DeleteStep =>
          entries' = SelectSeq(entries, LAMBDA e :
                         normalize(e.begriff) # normalize(selected[1].begriff)) ]_vars


-----------------------------------------------------------------------------
(* Claims about the sorted list *)

\* the sequence s holds every element of the sequence t as often as t does
IsPermutation(s, t) ==
    /\ Len(s) = Len(t)
    /\ \A i \in 1..Len(t) : Count(s, t[i]) = Count(t, t[i])

\* the terms of s are in non-decreasing order of their canonical forms
NonDecreasing(s) ==
    \A i, j \in 1..Len(s) :
        i < j => localeCompare(normalize(s[i].begriff),
                               normalize(s[j].begriff)) <= 0

\* C21: the sequence handed to the search is a permutation of the entries,
\* in non-decreasing order of the canonical terms when sortAsc is true and
\* exactly the reverse of that sequence when sortAsc is false; one toggle of
\* the direction turns the sequence around, two toggles give it back
C21_SortedPermutation ==
    LET srt == sorted
        asc == sortedMemo(entries, TRUE).sorted
        toggled == sortedMemo(entries, ~sortAsc).sorted
    IN  /\ IsPermutation(srt, entries)
        /\ NonDecreasing(asc)
        /\ srt = (IF sortAsc THEN asc ELSE Reverse(asc))
        /\ toggled = Reverse(srt)
        /\ Reverse(toggled) = srt

\* C21 witness: three entries, two of them of one canonical term, shown Z->A
\* in an order that is neither the stored order nor its reverse
C21_Witness ==
    /\ ~sortAsc /\ Len(entries) = 3
    /\ \E i, j \in 1..3 :
          i # j /\ normalize(entries[i].begriff) = normalize(entries[j].begriff)
    /\ sorted # entries /\ sorted # Reverse(entries)


-----------------------------------------------------------------------------
(* Claims about local storage after boot *)

\* the two items of local storage are the serializations of entries and sources
Stored ==
    /\ lsEntries = <<JsonText(entries)>>
    /\ lsSources = <<JsonText(sources)>>

-----------------------------------------------------------------------------
(* Claims about the editor *)

\* C23: saving the editor with a term that is empty after trimming is
\* rejected: the term collection is unchanged and the editor stays open in
\* the mode it has, create or edit; and an editor save stores no entry with
\* a blank term: every entry with a blank term after the save was there, at
\* its position, before
C23_BlankTermRejected ==
    [][ saveEditor =>
          /\ trim(formBegriff) = <<>> =>
                (entries' = entries /\ editorOpen' /\ editorMode' = editorMode)
          /\ \A i \in 1..Len(entries') :
                trim(entries'[i].begriff) = <<>> =>
                    (i <= Len(entries) /\ entries'[i] = entries[i]) ]_vars

\* C23 witness: the editor was opened on an entry, the term was replaced by
\* " " and the editor is still open in edit mode after a third step, with
\* the default entries in place
C23_Witness ==
    /\ editorOpen /\ editorMode = "edit" /\ editorIndex # <<>>
    /\ formBegriff = <<32>>
    /\ steps >= 3
    /\ entries = defaultEntries


\* C24: after every editor save with a non-blank term, in create mode and in
\* edit mode and whichever button opened the editor, the term collection
\* holds an entry equal to the saved record.  The detail modal's edit button
\* opens the editor with the index -1 when no entry is spelled like the
\* selected one any more, and the save then writes no element.
C24_SavedRecordStored ==
    [][ (saveEditor /\ trim(formBegriff) # <<>>) =>
            \E i \in 1..Len(entries') : entries'[i] = trimmedForm ]_vars


\* C25: saving the editor in edit mode changes only the entry that was opened
\* for editing: the length of the collection and every entry at another
\* position than the one the editor was opened with are unchanged, also when
\* a pending cloud load or CSV import completes between opening and saving.
\* The save writes at the index taken when the editor was opened, into the
\* collection as it is when the save runs.
C25_EditSaveChangesOneEntry ==
    [][ (saveEditor /\ editorMode = "edit" /\ editorIndex # <<>>
                    /\ trim(formBegriff) # <<>>) =>
            /\ Len(entries') = Len(entries)
            /\ \A i \in 1..Len(entries) :
                  i # editorIndex[1] + 1 => entries'[i] = entries[i] ]_vars


-----------------------------------------------------------------------------
(* Claims about the cloud load *)

\* C26: oneDriveLoadOrInit writes the empty glossary only when the file does
\* not exist yet: while a glossary file exists in the cloud, no step changes
\* it, and a load that ends with data sets entries and sources to the
\* collections of that file, whatever the read request answered.  The
\* function takes every status other than 200 for a missing file.
C26_ExistingFileKept ==
    [][ cloudFile # <<>> =>
          /\ cloudFile' = cloudFile
          /\ (cloudLoad # <<>> /\ cloudAlert' = <<"loaded">>) =>
                /\ entries' = orEmpty(cloudFile[1].glossar)
                /\ sources' = orEmpty(cloudFile[1].quellen) ]_vars

\* C27: a cloud load that fails (the token, the read or the initial write
\* throws) leaves entries and sources as they were; a step of the load
\* changes them only when the load ends with data, and then both are set,
\* entries to the glossar and sources to the quellen of that data
C27_FailedLoadKeepsState ==
    [][ cloudLoad' # cloudLoad =>
          IF cloudAlert' = <<"loaded">>
          THEN /\ entries' = orEmpty(cloudFile'[1].glossar)
               /\ sources' = orEmpty(cloudFile'[1].quellen)
          ELSE entries' = entries /\ sources' = sources ]_vars

\* C27 witness: a load has failed after an earlier load had replaced the
\* default entries and sources by those of the cloud file, which are still
\* in place
C27_Witness ==
    /\ cloudAlert = <<"failed">> /\ cloudLoad = <<>>
    /\ cloudFile # <<>>
    /\ entries = orEmpty(cloudFile[1].glossar) /\ entries # <<>>
    /\ sources = orEmpty(cloudFile[1].quellen) /\ sources # defaultSources


-----------------------------------------------------------------------------
(* Claims about the CSV import *)

\* the first line of the text has a cell that is "begriff" after trimming
\* and lower-casing
HasBegriffColumn(text) ==
    LET header == parseLine(splitLines(text)[1])
    IN  \E k \in 1..Len(header) : toLowerCase(trim(header[k])) = ColBegriff

\* the canonical terms of the rows of the file being imported
FileTerms ==
    LET parsed == parsedFile(importFile[1]).parsed
    IN  { normalize(parsed[k].begriff) : k \in 1..Len(parsed) }

\* C28: a CSV import whose header has no column "begriff" (after trimming and
\* lower-casing) leaves the term collection unchanged; rows whose term is
\* blank are skipped, so no entry with a blank term comes in; and the entries
\* whose canonical term does not occur in the file are unchanged and keep
\* their positions
C28_ImportKeepsOtherEntries ==
    [][ importCSVFromFile =>
          /\ ~HasBegriffColumn(importFile[1]) => entries' = entries
          /\ \A i \in 1..Len(entries') :
                trim(entries'[i].begriff) = <<>> =>
                    (i <= Len(entries) /\ entries'[i] = entries[i])
          /\ \A i \in 1..Len(entries) :
                normalize(entries[i].begriff) \notin FileTerms =>
                    (i <= Len(entries') /\ entries'[i] = entries[i]) ]_vars

\* C28 witness: the file with the header " BEGRIFF " and the file with the
\* rows "algorithmus", " ", "Bit" and "" have been imported: the first two
\* entries were replaced at their positions and "Bit" is the third and last
C28_Witness ==
    /\ importFile = <<>>
    /\ Len(entries) = 3
    /\ entries[1].begriff = <<97, 108, 103, 111, 114, 105, 116, 104, 109, 117, 115>>
    /\ entries[2].begriff = defaultEntries[2].begriff
    /\ entries[2].definition = <<>>
    /\ entries[3].begriff = <<66, 105, 116>>


\* C29: CSV export followed by import is a round trip: importing the text
\* that exportCSV makes of a collection into that collection leaves every
\* entry unchanged, whatever the fields hold (commas, double quotes, line
\* breaks, semicolons).  The import splits the text into lines before it
\* reads the quotes, and it splits the sources at every ";", "|" and ",".
C29_ExportImportRoundTrip ==
    [][ (importCSVFromFile /\ importFile[1] = exportCSV(entries)) =>
            entries' = entries ]_vars

=============================================================================
